---- MODULE Spec2Model ----
(***************************************************************************)
(* A model of the Kubernetes tool server of src/src/index.ts: the command  *)
(* executor (runKubectl), the tool dispatcher (handleTool), the two        *)
(* request handlers and main.                                              *)
(*                                                                         *)
(* JavaScript strings are TLA+ strings over printable ASCII; their         *)
(* characters are read with SubSeq.  The one non-ASCII character the       *)
(* model needs, U+FFFD (what the UTF-8 decoder writes for a byte that is   *)
(* not valid UTF-8), is written as the tilde, which no input of the model  *)
(* contains.                                                               *)
(***************************************************************************)
EXTENDS Integers, Sequences, FiniteSets, TLC

VARIABLES
  env,          \* the environment configuration read at load (lines 11-20)
  serverState,  \* where main is: "init", "probing", "serving"
  probe,        \* the process of main's connectivity test
  calls,        \* the tool calls, one per request slot of the client
  scenario,     \* which inputs the run draws: fixed by Init, never changed
  history,      \* observer's record: how the calls answered so far ended
  listed        \* the catalog of the last answer to a tool-listing query

vars == <<env, serverState, probe, calls, scenario, history, listed>>

(***************************************************************************)
(* Bounds of the model.                                                    *)
(***************************************************************************)
\* the chunks the standard output of one process arrives in, at most
MaxChunks == 2
\* the tool calls a client keeps in flight at once in the "concurrent"
\* scenario
MaxCalls == 2

(***************************************************************************)
(* Strings.                                                                *)
(***************************************************************************)
CharAt(s, i) == SubSeq(s, i, i)

\* String.prototype.includes for a one-character needle
Includes(s, c) == \E i \in 1..Len(s) : CharAt(s, i) = c

RECURSIVE ReplaceAll(_, _, _)
\* String.prototype.replace(/c/g, by) for a one-character pattern
ReplaceAll(s, c, by) ==
  IF s = "" THEN ""
  ELSE (IF Head(s) = c THEN by ELSE Head(s)) \o ReplaceAll(Tail(s), c, by)

RECURSIVE SplitFrom(_, _, _)
SplitFrom(s, sep, cur) ==
  IF s = "" THEN <<cur>>
  ELSE IF Head(s) = sep THEN <<cur>> \o SplitFrom(Tail(s), sep, "")
  ELSE SplitFrom(Tail(s), sep, cur \o Head(s))

\* String.prototype.split for a one-character separator: "" gives <<"">>
Split(s, sep) == SplitFrom(s, sep, "")

RECURSIVE Join(_, _)
\* Array.prototype.join over strings
Join(seq, sep) ==
  IF seq = <<>> THEN ""
  ELSE IF Len(seq) = 1 THEN seq[1]
  ELSE seq[1] \o sep \o Join(Tail(seq), sep)

IsSpace(c) == c \in {" ", "\n", "\t", "\r"}

RECURSIVE TrimStart(_)
TrimStart(s) == IF s # "" /\ IsSpace(Head(s)) THEN TrimStart(Tail(s)) ELSE s

RECURSIVE TrimEnd(_)
TrimEnd(s) ==
  IF s # "" /\ IsSpace(CharAt(s, Len(s)))
  THEN TrimEnd(SubSeq(s, 1, Len(s) - 1)) ELSE s

\* String.prototype.trim
Trim(s) == TrimEnd(TrimStart(s))

Digits == <<"0", "1", "2", "3", "4", "5", "6", "7", "8", "9">>

RECURSIVE NatToString(_)
NatToString(n) ==
  IF n < 10 THEN Digits[n + 1]
  ELSE NatToString(n \div 10) \o Digits[(n % 10) + 1]

\* Number to string, for integers
IntToString(n) == IF n < 0 THEN "-" \o NatToString(0 - n) ELSE NatToString(n)

(***************************************************************************)
(* JavaScript values: k is the type, s the text of a string, n the number  *)
(* (1 or 0 for true and false), e the entries of an object or an array in  *)
(* insertion order, each <<key, value>>.                                   *)
(***************************************************************************)
Undefined == [k |-> "undefined", s |-> "", n |-> 0, e |-> <<>>]
Null == [k |-> "null", s |-> "", n |-> 0, e |-> <<>>]
Str(x) == [k |-> "string", s |-> x, n |-> 0, e |-> <<>>]
Num(x) == [k |-> "number", s |-> "", n |-> x, e |-> <<>>]
Bool(b) == [k |-> "boolean", s |-> "", n |-> IF b THEN 1 ELSE 0, e |-> <<>>]
Obj(entries) == [k |-> "object", s |-> "", n |-> 0, e |-> entries]
Arr(items) ==
  [k |-> "array", s |-> "", n |-> 0,
   e |-> [i \in DOMAIN items |-> <<IntToString(i - 1), items[i]>>]]

\* ToBoolean
Truthy(v) ==
  CASE v.k \in {"undefined", "null"} -> FALSE
    [] v.k = "string" -> v.s # ""
    [] v.k = "number" -> v.n # 0
    [] v.k = "boolean" -> v.n = 1
    [] OTHER -> TRUE

\* a || b
Or(a, b) == IF Truthy(a) THEN a ELSE b

\* ToString, as a template literal `${v}` or String(v) applies it
ToStr(v) ==
  CASE v.k = "undefined" -> "undefined"
    [] v.k = "null" -> "null"
    [] v.k = "string" -> v.s
    [] v.k = "number" -> IntToString(v.n)
    [] v.k = "boolean" -> (IF v.n = 1 THEN "true" ELSE "false")
    [] v.k = "array" -> ""
    [] OTHER -> "[object Object]"

Nullish(v) == v.k \in {"undefined", "null"}

HasKey(v, key) == \E i \in DOMAIN v.e : v.e[i][1] = key

\* v.key for a v that is not nullish (reading a property of undefined or
\* null raises a TypeError: the callers test Nullish first)
Get(v, key) ==
  IF v.k \in {"object", "array"} /\ HasKey(v, key)
  THEN v.e[CHOOSE i \in DOMAIN v.e : v.e[i][1] = key][2]
  ELSE Undefined

\* Object.keys
Keys(v) == [i \in DOMAIN v.e |-> v.e[i][1]]

(***************************************************************************)
(* Environment configuration.  An environment variable that is unset and   *)
(* one that is set to "" read the same through `process.env.X || ""`, so   *)
(* "" stands for both.  platform is process.platform.                      *)
(***************************************************************************)
EnvOf(kubeconfig, context, defaultNs, kubectlPath, host, user, password, key, platform) ==
  [KUBECONFIG |-> kubeconfig, K8S_CONTEXT |-> context,
   K8S_DEFAULT_NAMESPACE |-> defaultNs, KUBECTL_PATH |-> kubectlPath,
   K8S_SSH_HOST |-> host, K8S_SSH_USER |-> user,
   K8S_SSH_PASSWORD |-> password, K8S_SSH_KEY |-> key, platform |-> platform]

KUBECONFIG(e) == e.KUBECONFIG
K8S_CONTEXT(e) == e.K8S_CONTEXT
K8S_DEFAULT_NAMESPACE(e) ==
  IF e.K8S_DEFAULT_NAMESPACE # "" THEN e.K8S_DEFAULT_NAMESPACE ELSE "default"
KUBECTL_PATH(e) == IF e.KUBECTL_PATH # "" THEN e.KUBECTL_PATH ELSE "kubectl"
K8S_SSH_HOST(e) == e.K8S_SSH_HOST
K8S_SSH_USER(e) == e.K8S_SSH_USER
K8S_SSH_PASSWORD(e) == e.K8S_SSH_PASSWORD
K8S_SSH_KEY(e) == e.K8S_SSH_KEY

(***************************************************************************)
(* The messages of the errors the JavaScript engine raises.  Their text is *)
(* the engine's, not the repository's; each kind is one fixed text here.   *)
(***************************************************************************)
TypeErrorReading(prop) ==
  "Cannot read properties of undefined (reading '" \o prop \o "')"
TypeErrorNotAFunction(what) == what \o " is not a function"
TypeErrorEntries == "Cannot convert undefined or null to object"
TypeErrorBuffer ==
  "The first argument must be of type string or an instance of Buffer"
SyntaxErrorJSON == "Unexpected token in JSON"

(***************************************************************************)
(* runKubectl, up to the spawn: the command and the arguments it spawns.   *)
(***************************************************************************)
StrSeq(seq) == [i \in DOMAIN seq |-> Str(seq[i])]

\* lines 37-43: the callback of args.map
escapeArg(arg) ==
  IF Includes(arg, "'") \/ Includes(arg, " ")
  THEN "\"" \o ReplaceAll(arg, "\"", "\\\"") \o "\""
  ELSE arg

\* arg.includes(...) on an element that is no string raises a TypeError
EscapeRaises(args) == \E i \in DOMAIN args : args[i].k # "string"

escapedArgs(args) == [i \in DOMAIN args |-> escapeArg(args[i].s)]

kubectlCmd(args) == "sudo kubectl " \o Join(escapedArgs(args), " ")

UserAtHost(e) == K8S_SSH_USER(e) \o "@" \o K8S_SSH_HOST(e)

\* the remote branch with the password tried before the key
RemoteSpawnPasswordFirst(e, args) ==
  IF K8S_SSH_PASSWORD(e) # ""
  THEN [command |-> IF e.platform = "win32" THEN "plink" ELSE "sshpass",
        spawnArgs |-> StrSeq(<<"-p", K8S_SSH_PASSWORD(e), "ssh",
                               UserAtHost(e), kubectlCmd(args)>>)]
  ELSE IF K8S_SSH_KEY(e) # ""
  THEN [command |-> "ssh",
        spawnArgs |-> StrSeq(<<"-i", K8S_SSH_KEY(e),
                               UserAtHost(e), kubectlCmd(args)>>)]
  ELSE [command |-> "ssh",
        spawnArgs |-> StrSeq(<<"-o", "StrictHostKeyChecking=no",
                               UserAtHost(e), kubectlCmd(args)>>)]

\* lines 46-88
RemoteSpawn(e, args) ==
  IF K8S_SSH_KEY(e) # ""
  THEN [command |-> "ssh",
        spawnArgs |-> StrSeq(<<"-i", K8S_SSH_KEY(e),
                               "-o", "StrictHostKeyChecking=no",
                               "-o", "UserKnownHostsFile=/dev/null",
                               "-o", "BatchMode=yes",
                               UserAtHost(e), kubectlCmd(args)>>)]
  ELSE IF K8S_SSH_PASSWORD(e) # ""
  THEN IF e.platform = "win32"
       THEN [command |-> "plink",
             spawnArgs |-> StrSeq(<<"-batch", "-pw", K8S_SSH_PASSWORD(e),
                                    UserAtHost(e), kubectlCmd(args)>>)]
       ELSE [command |-> "sshpass",
             spawnArgs |-> StrSeq(<<"-p", K8S_SSH_PASSWORD(e), "ssh",
                                    "-o", "StrictHostKeyChecking=no",
                                    "-o", "UserKnownHostsFile=/dev/null",
                                    UserAtHost(e), kubectlCmd(args)>>)]
  ELSE [command |-> "ssh",
        spawnArgs |-> StrSeq(<<"-o", "StrictHostKeyChecking=no",
                               UserAtHost(e), kubectlCmd(args)>>)]

\* the local branch with the context flag left out when a config file is
\* set
LocalSpawnOneFlag(e, args) ==
  [command |-> KUBECTL_PATH(e),
   spawnArgs |->
     (IF KUBECONFIG(e) # "" THEN <<Str("--kubeconfig=" \o KUBECONFIG(e))>>
      ELSE IF K8S_CONTEXT(e) # "" THEN <<Str("--context=" \o K8S_CONTEXT(e))>>
      ELSE <<>>)
     \o args]

\* lines 89-100: unshift puts the later flag first
LocalSpawn(e, args) ==
  [command |-> KUBECTL_PATH(e),
   spawnArgs |->
     (IF K8S_CONTEXT(e) # "" THEN <<Str("--context=" \o K8S_CONTEXT(e))>> ELSE <<>>)
     \o (IF KUBECONFIG(e) # "" THEN <<Str("--kubeconfig=" \o KUBECONFIG(e))>> ELSE <<>>)
     \o args]

\* runKubectl taking the remote path only when a user is set as well
SpawnPlanNeedingUser(e, args) ==
  IF K8S_SSH_HOST(e) # "" /\ K8S_SSH_USER(e) # ""
  THEN IF EscapeRaises(args)
       THEN [threw |-> TRUE, msg |-> TypeErrorReading("includes"),
             command |-> "", spawnArgs |-> <<>>]
       ELSE [threw |-> FALSE, msg |-> ""] @@ RemoteSpawn(e, args)
  ELSE [threw |-> FALSE, msg |-> ""] @@ LocalSpawn(e, args)

\* lines 31-102: what runKubectl spawns, or the error its executor raises
\* before it spawns anything (the promise is then rejected)
SpawnPlan(e, args) ==
  IF K8S_SSH_HOST(e) # ""
  THEN IF EscapeRaises(args)
       THEN [threw |-> TRUE, msg |-> TypeErrorReading("includes"),
             command |-> "", spawnArgs |-> <<>>]
       ELSE [threw |-> FALSE, msg |-> ""] @@ RemoteSpawn(e, args)
  ELSE [threw |-> FALSE, msg |-> ""] @@ LocalSpawn(e, args)

(***************************************************************************)
(* The spawned process as runKubectl sees it: the closure's stdout and     *)
(* stderr accumulators, what was written to standard input, and the        *)
(* promise (settled, result).  toOut and toErr are the text the process    *)
(* has still to write, sentOut and sentErr the text it has written, and    *)
(* exit the status its close event carried: the environment's side of the  *)
(* process.                                                                *)
(***************************************************************************)
NoResult == [stdout |-> "", stderr |-> "", code |-> 0]

NoProc ==
  [command |-> "", spawnArgs |-> <<>>, stdinText |-> "", stdinEnded |-> FALSE,
   stdout |-> "", stderr |-> "", settled |-> FALSE, result |-> NoResult,
   settledBy |-> "", closed |-> FALSE, errored |-> FALSE,
   toOut |-> "", toErr |-> "", chunks |-> 0, exit |-> Undefined,
   sentOut |-> "", sentErr |-> ""]

\* lines 102-118: spawn, the empty accumulators, and the write to stdin,
\* which happens only for a truthy options.stdin
SpawnProc(plan, stdin, out, err) ==
  [NoProc EXCEPT !.command = plan.command, !.spawnArgs = plan.spawnArgs,
                 !.stdinText = IF Truthy(stdin) THEN ToStr(stdin) ELSE "",
                 !.stdinEnded = Truthy(stdin),
                 !.toOut = out, !.toErr = err]

\* the collector putting each chunk before what it has
onStdoutDataPrepending(p, data) == [p EXCEPT !.stdout = data \o @]

\* lines 107-109
onStdoutData(p, data) == [p EXCEPT !.stdout = @ \o data]

\* lines 111-113
onStderrData(p, data) == [p EXCEPT !.stderr = @ \o data]

\* a promise that every call of resolve() settles anew
ResolveAgain(p, by, r) ==
  [p EXCEPT !.settled = TRUE, !.settledBy = by, !.result = r]

\* resolve(): only the first call settles a promise
Resolve(p, by, r) ==
  IF p.settled THEN p
  ELSE [p EXCEPT !.settled = TRUE, !.settledBy = by, !.result = r]

\* the close handler reporting a process that a signal ended as failed
onCloseSignalFails(p, code) ==
  Resolve([p EXCEPT !.closed = TRUE, !.toOut = "", !.toErr = "", !.exit = code],
          "close",
          [stdout |-> p.stdout, stderr |-> p.stderr,
           code |-> IF code.k = "number" THEN code.n ELSE 1])

\* lines 120-122: code is a number, or null for a process a signal ended.
\* A closed process writes nothing more.
onClose(p, code) ==
  Resolve([p EXCEPT !.closed = TRUE, !.toOut = "", !.toErr = "", !.exit = code],
          "close",
          [stdout |-> p.stdout, stderr |-> p.stderr,
           code |-> IF Truthy(code) THEN code.n ELSE 0])

\* lines 124-126
onError(p, message) ==
  Resolve([p EXCEPT !.errored = TRUE], "error",
          [stdout |-> "", stderr |-> message, code |-> 1])

(***************************************************************************)
(* JSON.stringify(value, null, 2) and JSON.parse.                          *)
(***************************************************************************)
\* U+FFFD, the replacement character
ReplacementChar == "~"

JSONEscapeChar(c) ==
  CASE c = "\"" -> "\\\""
    [] c = "\\" -> "\\\\"
    [] c = "\n" -> "\\n"
    [] c = "\t" -> "\\t"
    [] c = "\r" -> "\\r"
    [] OTHER -> c

RECURSIVE JSONEscape(_)
JSONEscape(s) ==
  IF s = "" THEN "" ELSE JSONEscapeChar(Head(s)) \o JSONEscape(Tail(s))

JSONQuote(s) == "\"" \o JSONEscape(s) \o "\""

\* the properties JSON.stringify writes: those whose value is not undefined
Written(v) == SelectSeq(v.e, LAMBDA kv : kv[2].k # "undefined")

RECURSIVE Serialize(_, _)
RECURSIVE SerializeItems(_, _, _)
SerializeItems(entries, indent, isArray) ==
  IF entries = <<>> THEN ""
  ELSE LET kv == Head(entries)
           one == indent
                  \o (IF isArray THEN "" ELSE JSONQuote(kv[1]) \o ": ")
                  \o (IF kv[2].k = "undefined" THEN "null"
                      ELSE Serialize(kv[2], indent))
       IN  IF Len(entries) = 1 THEN one
           ELSE one \o ",\n" \o SerializeItems(Tail(entries), indent, isArray)

Serialize(v, indent) ==
  CASE v.k = "string" -> JSONQuote(v.s)
    [] v.k = "number" -> IntToString(v.n)
    [] v.k = "boolean" -> (IF v.n = 1 THEN "true" ELSE "false")
    [] v.k = "null" -> "null"
    [] v.k = "array" ->
         IF v.e = <<>> THEN "[]"
         ELSE "[\n" \o SerializeItems(v.e, indent \o "  ", TRUE)
              \o "\n" \o indent \o "]"
    [] v.k = "object" ->
         IF Written(v) = <<>> THEN "{}"
         ELSE "{\n" \o SerializeItems(Written(v), indent \o "  ", FALSE)
              \o "\n" \o indent \o "}"

\* JSON.stringify(v, null, 2), for a v that is not undefined
JSONStringify(v) == Serialize(v, "")

(***************************************************************************)
(* Buffer.from(value, "base64").toString("utf-8").                         *)
(***************************************************************************)
Base64Alphabet ==
  "ABCDEFGHIJKLMNOPQRSTUVWXYZabcdefghijklmnopqrstuvwxyz0123456789+/"

\* the decoder also reads the URL-safe characters
Base64Value(c) ==
  CASE c = "-" -> 62
    [] c = "_" -> 63
    [] OTHER -> (CHOOSE i \in 1..64 : CharAt(Base64Alphabet, i) = c) - 1

IsBase64Char(c) == c \in {"-", "_"} \/ Includes(Base64Alphabet, c)

RECURSIVE Sextets(_)
\* the 6-bit values of the text: "=" ends it, any other character that is
\* not of the alphabet is skipped
Sextets(s) ==
  IF s = "" \/ Head(s) = "=" THEN <<>>
  ELSE IF IsBase64Char(Head(s)) THEN <<Base64Value(Head(s))>> \o Sextets(Tail(s))
  ELSE Sextets(Tail(s))

RECURSIVE BytesOf(_)
\* four 6-bit values give three bytes; a last group of two gives one byte,
\* of three gives two, and a single value is dropped
BytesOf(x) ==
  IF Len(x) >= 4
  THEN <<x[1] * 4 + x[2] \div 16,
         (x[2] % 16) * 16 + x[3] \div 4,
         (x[3] % 4) * 64 + x[4]>> \o BytesOf(SubSeq(x, 5, Len(x)))
  ELSE IF Len(x) = 3
  THEN <<x[1] * 4 + x[2] \div 16, (x[2] % 16) * 16 + x[3] \div 4>>
  ELSE IF Len(x) = 2 THEN <<x[1] * 4 + x[2] \div 16>>
  ELSE <<>>

\* Buffer.from(s, "base64")
Base64Decode(s) == BytesOf(Sextets(s))

AsciiPrintable ==
  " !\"#$%&'()*+,-./0123456789:;<=>?@ABCDEFGHIJKLMNOPQRSTUVWXYZ[\\]^_?abcdefghijklmnopqrstuvwxyz{|}~"

\* one decoded byte as text.  The model's values hold no lead byte of a
\* multi-byte sequence (0xC2-0xF4), so every byte from 0x80 up is invalid
\* where it stands and decodes to U+FFFD; control bytes other than the
\* three below, the grave accent (no TLA+ string holds it) and the tilde
\* (which stands for U+FFFD) are not in the model either.
Utf8Char(b) ==
  CASE b = 9 -> "\t"
    [] b = 10 -> "\n"
    [] b = 13 -> "\r"
    [] b >= 32 /\ b <= 125 /\ b # 96 -> CharAt(AsciiPrintable, b - 31)
    [] (b >= 128 /\ b <= 193) \/ (b >= 245 /\ b <= 255) -> ReplacementChar

RECURSIVE Utf8Decode(_)
\* Buffer.prototype.toString("utf-8")
Utf8Decode(bytes) ==
  IF bytes = <<>> THEN "" ELSE Utf8Char(Head(bytes)) \o Utf8Decode(Tail(bytes))

(***************************************************************************)
(* The tool catalog (lines 151-748), by name, in the order of the source.  *)
(***************************************************************************)
tools ==
  <<"k8s_get_cluster_info", "k8s_list_nodes", "k8s_get_node",
    "k8s_describe_node", "k8s_list_namespaces", "k8s_create_namespace",
    "k8s_delete_namespace", "k8s_list_pods", "k8s_get_pod",
    "k8s_describe_pod", "k8s_get_pod_logs", "k8s_delete_pod", "k8s_exec_pod",
    "k8s_list_deployments", "k8s_get_deployment", "k8s_describe_deployment",
    "k8s_scale_deployment", "k8s_restart_deployment",
    "k8s_update_deployment_image", "k8s_list_services", "k8s_get_service",
    "k8s_describe_service", "k8s_list_configmaps", "k8s_get_configmap",
    "k8s_create_configmap", "k8s_delete_configmap", "k8s_list_secrets",
    "k8s_get_secret", "k8s_create_secret", "k8s_delete_secret",
    "k8s_list_statefulsets", "k8s_get_statefulset", "k8s_scale_statefulset",
    "k8s_list_daemonsets", "k8s_get_daemonset", "k8s_list_ingresses",
    "k8s_get_ingress", "k8s_apply_manifest", "k8s_delete_resource",
    "k8s_get_events", "k8s_get_resource_yaml", "k8s_get_all",
    "k8s_rollout_status", "k8s_rollout_history", "k8s_rollout_undo",
    "k8s_top_nodes", "k8s_top_pods", "k8s_get_contexts",
    "k8s_current_context">>

ToolNames == {tools[i] : i \in DOMAIN tools}

(***************************************************************************)
(* The argument mapping of a call: one value per key the tools read, with  *)
(* Undefined for a key the caller left out.                                *)
(***************************************************************************)
ArgKeys ==
  {"namespace", "name", "all_namespaces", "label_selector", "container",
   "previous", "tail", "since", "force", "command", "replicas", "image",
   "data", "type", "decode", "manifest", "dry_run", "resource_type",
   "revision"}

NoArgs == [key \in ArgKeys |-> Undefined]

(***************************************************************************)
(* handleTool, up to its call of runKubectl.                               *)
(***************************************************************************)
\* getNamespace with ?? in the place of ||: an empty namespace is kept
getNamespaceKeepingEmpty(e, namespace) ==
  IF Nullish(namespace) THEN Str(K8S_DEFAULT_NAMESPACE(e)) ELSE namespace

\* lines 131-133
getNamespace(e, namespace) == Or(namespace, Str(K8S_DEFAULT_NAMESPACE(e)))

\* the list branch with the else dropped: -n is pushed whenever a
\* namespace was supplied
NamespaceScopeAppending(args, ns) ==
  (IF Truthy(args.all_namespaces) THEN <<Str("--all-namespaces")>> ELSE <<>>)
  \o (IF Truthy(args.namespace) \/ ~Truthy(args.all_namespaces)
      THEN <<Str("-n"), ns>> ELSE <<>>)

\* the branch every list tool repeats: lines 811-815 and the like
NamespaceScope(args, ns) ==
  IF Truthy(args.all_namespaces) THEN <<Str("--all-namespaces")>>
  ELSE <<Str("-n"), ns>>

\* lines 1002-1004 and 1051-1053
FromLiterals(data) ==
  [i \in DOMAIN data.e |->
     Str("--from-literal=" \o data.e[i][1] \o "=" \o ToStr(data.e[i][2]))]

ForceFlags(args) ==
  IF Truthy(args.force) THEN StrSeq(<<"--force", "--grace-period=0">>) ELSE <<>>

\* get <kind> <name> -n <ns> -o json
GetJson(kind, args, ns) ==
  StrSeq(<<"get", kind>>) \o <<args.name, Str("-n"), ns>> \o StrSeq(<<"-o", "json">>)

\* <verb...> <name> -n <ns>
Named(verbs, args, ns) == StrSeq(verbs) \o <<args.name, Str("-n"), ns>>

\* lines 850-855
PodLogsArgs(args, ns) ==
  Named(<<"logs">>, args, ns)
  \o (IF Truthy(args.container) THEN <<Str("-c"), args.container>> ELSE <<>>)
  \o (IF Truthy(args.previous) THEN <<Str("--previous")>> ELSE <<>>)
  \o (IF Truthy(args.tail) THEN <<Str("--tail"), Str(ToStr(args.tail))>> ELSE <<>>)
  \o (IF Truthy(args.since) THEN <<Str("--since"), args.since>> ELSE <<>>)

\* lines 870-872
ExecPodArgs(args, ns) ==
  Named(<<"exec">>, args, ns)
  \o (IF Truthy(args.container) THEN <<Str("-c"), args.container>> ELSE <<>>)
  \o <<Str("--")>> \o StrSeq(Split(args.command.s, " "))

\* the apply branch scoped to the resolved namespace like the others
ApplyManifestArgsScoped(args, ns) ==
  StrSeq(<<"apply", "-f", "-">>) \o <<Str("-n"), ns>>
  \o (IF Truthy(args.dry_run) THEN <<Str("--dry-run=client")>> ELSE <<>>)

\* lines 1134-1136
ApplyManifestArgs(args, ns) ==
  StrSeq(<<"apply", "-f", "-">>)
  \o (IF Truthy(args.namespace) THEN <<Str("-n"), ns>> ELSE <<>>)
  \o (IF Truthy(args.dry_run) THEN <<Str("--dry-run=client")>> ELSE <<>>)

\* the scale branch with the replica flag pushed only for a truthy count
ScaleArgsTruthy(kind, args, ns) ==
  Named(<<"scale", kind>>, args, ns)
  \o (IF Truthy(args.replicas)
      THEN <<Str("--replicas=" \o ToStr(args.replicas))>> ELSE <<>>)

\* lines 916-920 and 1085-1089
ScaleArgs(kind, args, ns) ==
  Named(<<"scale", kind>>, args, ns)
  \o <<Str("--replicas=" \o ToStr(args.replicas))>>

\* the argument list each branch of the switch hands to runKubectl
kubectlArgs(name, args, ns) ==
  CASE name = "k8s_get_cluster_info" -> StrSeq(<<"cluster-info">>)
    [] name = "k8s_list_nodes" -> StrSeq(<<"get", "nodes", "-o", "wide">>)
    [] name = "k8s_get_node" ->
         StrSeq(<<"get", "node">>) \o <<args.name>> \o StrSeq(<<"-o", "json">>)
    [] name = "k8s_describe_node" -> StrSeq(<<"describe", "node">>) \o <<args.name>>
    [] name = "k8s_list_namespaces" -> StrSeq(<<"get", "namespaces", "-o", "wide">>)
    [] name = "k8s_create_namespace" -> StrSeq(<<"create", "namespace">>) \o <<args.name>>
    [] name = "k8s_delete_namespace" -> StrSeq(<<"delete", "namespace">>) \o <<args.name>>
    [] name = "k8s_list_pods" ->
         StrSeq(<<"get", "pods", "-o", "wide">>) \o NamespaceScope(args, ns)
         \o (IF Truthy(args.label_selector)
             THEN <<Str("-l"), args.label_selector>> ELSE <<>>)
    [] name = "k8s_get_pod" -> GetJson("pod", args, ns)
    [] name = "k8s_describe_pod" -> Named(<<"describe", "pod">>, args, ns)
    [] name = "k8s_get_pod_logs" -> PodLogsArgs(args, ns)
    [] name = "k8s_delete_pod" ->
         Named(<<"delete", "pod">>, args, ns) \o ForceFlags(args)
    [] name = "k8s_exec_pod" -> ExecPodArgs(args, ns)
    [] name = "k8s_list_deployments" ->
         StrSeq(<<"get", "deployments", "-o", "wide">>) \o NamespaceScope(args, ns)
    [] name = "k8s_get_deployment" -> GetJson("deployment", args, ns)
    [] name = "k8s_describe_deployment" ->
         Named(<<"describe", "deployment">>, args, ns)
    [] name = "k8s_scale_deployment" -> ScaleArgs("deployment", args, ns)
    [] name = "k8s_restart_deployment" ->
         Named(<<"rollout", "restart", "deployment">>, args, ns)
    [] name = "k8s_update_deployment_image" ->
         <<Str("set"), Str("image"), Str("deployment/" \o ToStr(args.name)),
           Str(ToStr(args.container) \o "=" \o ToStr(args.image)),
           Str("-n"), ns>>
    [] name = "k8s_list_services" ->
         StrSeq(<<"get", "services", "-o", "wide">>) \o NamespaceScope(args, ns)
    [] name = "k8s_get_service" -> GetJson("service", args, ns)
    [] name = "k8s_describe_service" -> Named(<<"describe", "service">>, args, ns)
    [] name = "k8s_list_configmaps" ->
         StrSeq(<<"get", "configmaps">>) \o NamespaceScope(args, ns)
    [] name = "k8s_get_configmap" -> GetJson("configmap", args, ns)
    [] name = "k8s_create_configmap" ->
         Named(<<"create", "configmap">>, args, ns) \o FromLiterals(args.data)
    [] name = "k8s_delete_configmap" -> Named(<<"delete", "configmap">>, args, ns)
    [] name = "k8s_list_secrets" ->
         StrSeq(<<"get", "secrets">>) \o NamespaceScope(args, ns)
    [] name = "k8s_get_secret" -> GetJson("secret", args, ns)
    [] name = "k8s_create_secret" ->
         StrSeq(<<"create", "secret">>)
         \o <<Or(args.type, Str("generic")), args.name, Str("-n"), ns>>
         \o FromLiterals(args.data)
    [] name = "k8s_delete_secret" -> Named(<<"delete", "secret">>, args, ns)
    [] name = "k8s_list_statefulsets" ->
         StrSeq(<<"get", "statefulsets", "-o", "wide">>) \o NamespaceScope(args, ns)
    [] name = "k8s_get_statefulset" -> GetJson("statefulset", args, ns)
    [] name = "k8s_scale_statefulset" -> ScaleArgs("statefulset", args, ns)
    [] name = "k8s_list_daemonsets" ->
         StrSeq(<<"get", "daemonsets", "-o", "wide">>) \o NamespaceScope(args, ns)
    [] name = "k8s_get_daemonset" -> GetJson("daemonset", args, ns)
    [] name = "k8s_list_ingresses" ->
         StrSeq(<<"get", "ingress", "-o", "wide">>) \o NamespaceScope(args, ns)
    [] name = "k8s_get_ingress" -> GetJson("ingress", args, ns)
    [] name = "k8s_apply_manifest" -> ApplyManifestArgs(args, ns)
    [] name = "k8s_delete_resource" ->
         <<Str("delete"), args.resource_type, args.name, Str("-n"), ns>>
         \o ForceFlags(args)
    [] name = "k8s_get_events" ->
         StrSeq(<<"get", "events", "--sort-by=.lastTimestamp">>)
         \o NamespaceScope(args, ns)
    [] name = "k8s_get_resource_yaml" ->
         <<Str("get"), args.resource_type, args.name, Str("-n"), ns>>
         \o StrSeq(<<"-o", "yaml">>)
    [] name = "k8s_get_all" ->
         <<Str("get"), Str("all"), Str("-n"), ns>> \o StrSeq(<<"-o", "wide">>)
    [] name = "k8s_rollout_status" ->
         Named(<<"rollout", "status", "deployment">>, args, ns)
    [] name = "k8s_rollout_history" ->
         Named(<<"rollout", "history", "deployment">>, args, ns)
    [] name = "k8s_rollout_undo" ->
         Named(<<"rollout", "undo", "deployment">>, args, ns)
         \o (IF Truthy(args.revision)
             THEN <<Str("--to-revision=" \o ToStr(args.revision))>> ELSE <<>>)
    [] name = "k8s_top_nodes" -> StrSeq(<<"top", "nodes">>)
    [] name = "k8s_top_pods" -> StrSeq(<<"top", "pods">>) \o NamespaceScope(args, ns)
    [] name = "k8s_get_contexts" -> StrSeq(<<"config", "get-contexts">>)
    [] name = "k8s_current_context" -> StrSeq(<<"config", "current-context">>)

\* the case labels of the switch (lines 756-1224), in the order of the
\* source
cases ==
  <<"k8s_get_cluster_info", "k8s_list_nodes", "k8s_get_node",
    "k8s_describe_node", "k8s_list_namespaces", "k8s_create_namespace",
    "k8s_delete_namespace", "k8s_list_pods", "k8s_get_pod",
    "k8s_describe_pod", "k8s_get_pod_logs", "k8s_delete_pod", "k8s_exec_pod",
    "k8s_list_deployments", "k8s_get_deployment", "k8s_describe_deployment",
    "k8s_scale_deployment", "k8s_restart_deployment",
    "k8s_update_deployment_image", "k8s_list_services", "k8s_get_service",
    "k8s_describe_service", "k8s_list_configmaps", "k8s_get_configmap",
    "k8s_create_configmap", "k8s_delete_configmap", "k8s_list_secrets",
    "k8s_get_secret", "k8s_create_secret", "k8s_delete_secret",
    "k8s_list_statefulsets", "k8s_get_statefulset", "k8s_scale_statefulset",
    "k8s_list_daemonsets", "k8s_get_daemonset", "k8s_list_ingresses",
    "k8s_get_ingress", "k8s_apply_manifest", "k8s_delete_resource",
    "k8s_get_events", "k8s_get_resource_yaml", "k8s_get_all",
    "k8s_rollout_status", "k8s_rollout_history", "k8s_rollout_undo",
    "k8s_top_nodes", "k8s_top_pods", "k8s_get_contexts",
    "k8s_current_context">>

\* the switch without its k8s_get_all case
KnownToolButOne(name) ==
  \E i \in DOMAIN cases : cases[i] = name /\ name # "k8s_get_all"

\* the name selects a case of the switch and not its default
KnownTool(name) == \E i \in DOMAIN cases : cases[i] = name

\* the message of the error a branch raises while it assembles its
\* arguments, "" when it raises none: command.split (line 872) and
\* Object.entries(data) (lines 1002 and 1051)
ArgsRaise(name, args) ==
  CASE name = "k8s_exec_pod" /\ Nullish(args.command) -> TypeErrorReading("split")
    [] name = "k8s_exec_pod" /\ args.command.k # "string" ->
         TypeErrorNotAFunction("args.command.split")
    [] name \in {"k8s_create_configmap", "k8s_create_secret"}
       /\ Nullish(args.data) -> TypeErrorEntries
    [] OTHER -> ""

\* options.stdin of the call: only k8s_apply_manifest passes one (line 1137)
StdinOf(name, args) ==
  IF name = "k8s_apply_manifest" THEN args.manifest ELSE Undefined

\* handleTool from its entry to the await of runKubectl: either an error
\* raised before any process is spawned, or the process to spawn
handleToolCall(e, name, hasArgs, args) ==
  LET none == [threw |-> FALSE, msg |-> "", spawns |-> FALSE, ns |-> Undefined,
               kargs |-> <<>>, command |-> "", spawnArgs |-> <<>>,
               stdin |-> Undefined]
  IN
  IF ~hasArgs
  THEN [none EXCEPT !.threw = TRUE, !.msg = TypeErrorReading("namespace")]
  ELSE LET ns == getNamespace(e, args.namespace) IN
       IF ~KnownTool(name)
       THEN [none EXCEPT !.threw = TRUE, !.msg = "Unknown tool: " \o name, !.ns = ns]
       ELSE IF ArgsRaise(name, args) # ""
       THEN [none EXCEPT !.threw = TRUE, !.msg = ArgsRaise(name, args), !.ns = ns]
       ELSE LET kargs == kubectlArgs(name, args, ns)
                plan == SpawnPlan(e, kargs)
            IN  IF plan.threw
                THEN [none EXCEPT !.threw = TRUE, !.msg = plan.msg, !.ns = ns,
                                  !.kargs = kargs]
                ELSE [none EXCEPT !.spawns = TRUE, !.ns = ns, !.kargs = kargs,
                                  !.command = plan.command,
                                  !.spawnArgs = plan.spawnArgs,
                                  !.stdin = StdinOf(name, args)]

(***************************************************************************)
(* What the cluster client prints.  The documents it may print for a get   *)
(* with -o json are the values below; JSON.parse reads back exactly the    *)
(* texts that are one of them in full, and raises a SyntaxError on any     *)
(* other text (an empty, cut or repeated document, a table).               *)
(***************************************************************************)
Containers ==
  Arr(<<Obj(<< <<"name", Str("app")>>, <<"image", Str("nginx:1.25")>>,
               <<"ports", Arr(<<Obj(<< <<"containerPort", Num(80)>> >>)>>)>> >>)>>)

ResourceDoc ==
  Obj(<< <<"kind", Str("Resource")>>,
         <<"metadata", Obj(<< <<"name", Str("web")>>, <<"namespace", Str("prod")>>,
                              <<"labels", Obj(<< <<"app", Str("web")>> >>)>> >>)>>,
         <<"spec", Obj(<< <<"replicas", Num(2)>>, <<"nodeName", Str("node-1")>>,
                          <<"type", Str("ClusterIP")>>,
                          <<"clusterIP", Str("10.0.0.1")>>,
                          <<"containers", Containers>>,
                          <<"template", Obj(<< <<"spec",
                               Obj(<< <<"containers", Containers>> >>)>> >>)>> >>)>>,
         <<"status", Obj(<< <<"phase", Str("Running")>>,
                            <<"readyReplicas", Num(2)>>,
                            <<"conditions",
                              Arr(<<Obj(<< <<"type", Str("Ready")>>,
                                           <<"status", Str("True")>> >>)>>)>> >>)>>,
         <<"data", Obj(<< <<"mode", Str("fast")>> >>)>> >>)

SecretMeta == Obj(<< <<"name", Str("db")>>, <<"namespace", Str("prod")>> >>)

\* "YWRtaW4=" is admin, "cEBzcyB3MHJk" is p@ss w0rd, "/w==" is the byte 0xFF
SecretDoc ==
  Obj(<< <<"metadata", SecretMeta>>, <<"type", Str("Opaque")>>,
         <<"data", Obj(<< <<"user", Str("YWRtaW4=")>>,
                          <<"password", Str("cEBzcyB3MHJk")>>,
                          <<"blob", Str("/w==")>> >>)>> >>)

\* the same secret with other stored values
SecretDoc2 ==
  Obj(<< <<"metadata", SecretMeta>>, <<"type", Str("Opaque")>>,
         <<"data", Obj(<< <<"user", Str("cm9vdA==")>>,
                          <<"password", Str("aHVudGVyMg==")>>,
                          <<"blob", Str("gA==")>> >>)>> >>)

SecretEmptyData ==
  Obj(<< <<"metadata", SecretMeta>>, <<"type", Str("Opaque")>>,
         <<"data", Obj(<<>>)>> >>)

SecretNoData == Obj(<< <<"metadata", SecretMeta>>, <<"type", Str("Opaque")>> >>)

\* a document with none of the fields the projections read
BareDoc == Obj(<< <<"kind", Str("List")>> >>)

JSONDocs ==
  <<ResourceDoc, SecretDoc, SecretDoc2, SecretEmptyData, SecretNoData, BareDoc, Null>>

\* the client ends its output with a line break
DocText(doc) == JSONStringify(doc) \o "\n"

DocTexts == [i \in DOMAIN JSONDocs |-> DocText(JSONDocs[i])]

\* JSON.parse(text)
JSONParse(text) ==
  IF \E i \in DOMAIN DocTexts : DocTexts[i] = text
  THEN [ok |-> TRUE,
        value |-> JSONDocs[CHOOSE i \in DOMAIN DocTexts : DocTexts[i] = text]]
  ELSE [ok |-> FALSE, value |-> Undefined]

TableText == "NAME   READY   STATUS\nweb    1/1     Running\n"

ErrorText == "Error from server (NotFound): not found\n"

(***************************************************************************)
(* handleTool after the await: the result of runKubectl shaped into the    *)
(* returned text, or the error raised.                                     *)
(***************************************************************************)
Thrown(m) == [threw |-> TRUE, msg |-> m, text |-> "", obj |-> Undefined]
Returned(x) == [threw |-> FALSE, msg |-> "", text |-> x, obj |-> Undefined]
\* return JSON.stringify(obj, null, 2)
ReturnedJson(o) ==
  [threw |-> FALSE, msg |-> "", text |-> JSONStringify(o), obj |-> o]

Prop(key, v) == <<key, v>>

\* containers.map(c => ({name, image[, ports]})): the error it raises, or ""
MapRaises(cs) ==
  CASE Nullish(cs) -> TypeErrorReading("map")
    [] cs.k # "array" -> TypeErrorNotAFunction("containers.map")
    [] \E i \in DOMAIN cs.e : Nullish(cs.e[i][2]) -> TypeErrorReading("name")
    [] OTHER -> ""

MapContainers(cs, withPorts) ==
  Arr([i \in DOMAIN cs.e |->
         LET c == cs.e[i][2] IN
         Obj(<<Prop("name", Get(c, "name")), Prop("image", Get(c, "image"))>>
             \o (IF withPorts THEN <<Prop("ports", Get(c, "ports"))>> ELSE <<>>))])

\* lines 775: conditions?.find(c => c.type === "Ready")?.status === "True"
NodeReady(conditions) ==
  IF Nullish(conditions) THEN FALSE
  ELSE \E i \in DOMAIN conditions.e :
         /\ Get(conditions.e[i][2], "type") = Str("Ready")
         /\ \A j \in 1..(i - 1) : Get(conditions.e[j][2], "type") # Str("Ready")
         /\ Get(conditions.e[i][2], "status") = Str("True")

NodeRaises(node) ==
  CASE Nullish(node) -> TypeErrorReading("metadata")
    [] Nullish(Get(node, "metadata")) -> TypeErrorReading("name")
    [] Nullish(Get(node, "status")) -> TypeErrorReading("conditions")
    [] ~Nullish(Get(Get(node, "status"), "conditions"))
       /\ Get(Get(node, "status"), "conditions").k # "array" ->
         TypeErrorNotAFunction("node.status.conditions?.find")
    [] OTHER -> ""

\* lines 772-780
NodeView(node) ==
  LET md == Get(node, "metadata")  st == Get(node, "status") IN
  Obj(<<Prop("name", Get(md, "name")), Prop("labels", Get(md, "labels")),
        Prop("status", Str(IF NodeReady(Get(st, "conditions"))
                           THEN "Ready" ELSE "NotReady")),
        Prop("conditions", Get(st, "conditions")),
        Prop("capacity", Get(st, "capacity")),
        Prop("allocatable", Get(st, "allocatable")),
        Prop("nodeInfo", Get(st, "nodeInfo"))>>)

PodRaises(pod) ==
  CASE Nullish(pod) -> TypeErrorReading("metadata")
    [] Nullish(Get(pod, "metadata")) -> TypeErrorReading("name")
    [] Nullish(Get(pod, "status")) -> TypeErrorReading("phase")
    [] Nullish(Get(pod, "spec")) -> TypeErrorReading("nodeName")
    [] OTHER -> MapRaises(Get(Get(pod, "spec"), "containers"))

\* lines 828-841
PodView(pod) ==
  LET md == Get(pod, "metadata")  st == Get(pod, "status")
      sp == Get(pod, "spec") IN
  Obj(<<Prop("name", Get(md, "name")), Prop("namespace", Get(md, "namespace")),
        Prop("status", Get(st, "phase")), Prop("podIP", Get(st, "podIP")),
        Prop("nodeName", Get(sp, "nodeName")),
        Prop("containers", MapContainers(Get(sp, "containers"), TRUE)),
        Prop("conditions", Get(st, "conditions")),
        Prop("containerStatuses", Get(st, "containerStatuses"))>>)

DeploymentRaises(dep) ==
  CASE Nullish(dep) -> TypeErrorReading("metadata")
    [] Nullish(Get(dep, "metadata")) -> TypeErrorReading("name")
    [] Nullish(Get(dep, "spec")) -> TypeErrorReading("replicas")
    [] Nullish(Get(dep, "status")) -> TypeErrorReading("availableReplicas")
    [] Nullish(Get(Get(dep, "spec"), "template")) -> TypeErrorReading("spec")
    [] Nullish(Get(Get(Get(dep, "spec"), "template"), "spec")) ->
         TypeErrorReading("containers")
    [] OTHER ->
         MapRaises(Get(Get(Get(Get(dep, "spec"), "template"), "spec"), "containers"))

\* lines 894-906
DeploymentView(dep) ==
  LET md == Get(dep, "metadata")  st == Get(dep, "status")
      sp == Get(dep, "spec") IN
  Obj(<<Prop("name", Get(md, "name")), Prop("namespace", Get(md, "namespace")),
        Prop("replicas", Get(sp, "replicas")),
        Prop("availableReplicas", Get(st, "availableReplicas")),
        Prop("readyReplicas", Get(st, "readyReplicas")),
        Prop("strategy", Get(sp, "strategy")),
        Prop("containers",
             MapContainers(Get(Get(Get(sp, "template"), "spec"), "containers"),
                           FALSE)),
        Prop("conditions", Get(st, "conditions"))>>)

ServiceRaises(svc) ==
  CASE Nullish(svc) -> TypeErrorReading("metadata")
    [] Nullish(Get(svc, "metadata")) -> TypeErrorReading("name")
    [] Nullish(Get(svc, "spec")) -> TypeErrorReading("type")
    [] OTHER -> ""

\* lines 958-966
ServiceView(svc) ==
  LET md == Get(svc, "metadata")  sp == Get(svc, "spec") IN
  Obj(<<Prop("name", Get(md, "name")), Prop("namespace", Get(md, "namespace")),
        Prop("type", Get(sp, "type")), Prop("clusterIP", Get(sp, "clusterIP")),
        Prop("externalIPs", Get(sp, "externalIPs")),
        Prop("ports", Get(sp, "ports")), Prop("selector", Get(sp, "selector"))>>)

ConfigMapRaises(cm) ==
  CASE Nullish(cm) -> TypeErrorReading("metadata")
    [] Nullish(Get(cm, "metadata")) -> TypeErrorReading("name")
    [] OTHER -> ""

\* lines 992-996
ConfigMapView(cm) ==
  LET md == Get(cm, "metadata") IN
  Obj(<<Prop("name", Get(md, "name")), Prop("namespace", Get(md, "namespace")),
        Prop("data", Get(cm, "data"))>>)

\* lines 1039-1044: whether the values are decoded
SecretDecodes(args, secret) == Truthy(args.decode) /\ Truthy(Get(secret, "data"))

SecretRaises(args, secret) ==
  CASE Nullish(secret) -> TypeErrorReading("metadata")
    [] Nullish(Get(secret, "metadata")) -> TypeErrorReading("name")
    [] SecretDecodes(args, secret)
       /\ \E i \in DOMAIN Get(secret, "data").e :
            Get(secret, "data").e[i][2].k # "string" -> TypeErrorBuffer
    [] OTHER -> ""

\* line 1042
DecodeValue(value) == Str(Utf8Decode(Base64Decode(value.s)))

\* the view with the stored values next to the key names, whatever the
\* decode flag
SecretViewWithData(args, secret) ==
  LET md == Get(secret, "metadata")
      data == Get(secret, "data")
      keys == IF Truthy(data) THEN Keys(data) ELSE <<>>
  IN
  Obj(<<Prop("name", Get(md, "name")), Prop("namespace", Get(md, "namespace")),
        Prop("type", Get(secret, "type")), Prop("keys", Arr(StrSeq(keys))),
        Prop("data", data)>>)

\* lines 1033-1045
SecretView(args, secret) ==
  LET md == Get(secret, "metadata")
      data == Get(secret, "data")
      keys == IF Truthy(data) THEN Keys(data) ELSE <<>>
  IN
  Obj(<<Prop("name", Get(md, "name")), Prop("namespace", Get(md, "namespace")),
        Prop("type", Get(secret, "type")), Prop("keys", Arr(StrSeq(keys)))>>
      \o (IF SecretDecodes(args, secret)
          THEN <<Prop("decodedData",
                      Obj([i \in DOMAIN data.e |->
                             <<data.e[i][1], DecodeValue(data.e[i][2])>>]))>>
          ELSE <<>>))

JsonTools ==
  {"k8s_get_node", "k8s_get_pod", "k8s_get_deployment", "k8s_get_service",
   "k8s_get_configmap", "k8s_get_secret", "k8s_get_statefulset",
   "k8s_get_daemonset", "k8s_get_ingress"}

\* the error the projection of a parsed document raises, or ""
ViewRaises(name, args, doc) ==
  CASE name = "k8s_get_node" -> NodeRaises(doc)
    [] name = "k8s_get_pod" -> PodRaises(doc)
    [] name = "k8s_get_deployment" -> DeploymentRaises(doc)
    [] name = "k8s_get_service" -> ServiceRaises(doc)
    [] name = "k8s_get_configmap" -> ConfigMapRaises(doc)
    [] name = "k8s_get_secret" -> SecretRaises(args, doc)
    [] OTHER -> ""

View(name, args, doc) ==
  CASE name = "k8s_get_node" -> NodeView(doc)
    [] name = "k8s_get_pod" -> PodView(doc)
    [] name = "k8s_get_deployment" -> DeploymentView(doc)
    [] name = "k8s_get_service" -> ServiceView(doc)
    [] name = "k8s_get_configmap" -> ConfigMapView(doc)
    [] name = "k8s_get_secret" -> SecretView(args, doc)
    [] OTHER -> doc

\* a get with -o json: parse, project, re-serialize
JsonReturn(name, args, stdout) ==
  LET parsed == JSONParse(stdout) IN
  IF ~parsed.ok THEN Thrown(SyntaxErrorJSON)
  ELSE IF ViewRaises(name, args, parsed.value) # ""
  THEN Thrown(ViewRaises(name, args, parsed.value))
  ELSE ReturnedJson(View(name, args, parsed.value))

Quoted(v) == "'" \o ToStr(v) \o "'"

\* the text a branch returns after exit status 0
SuccessText(name, args, ns, r) ==
  CASE name = "k8s_create_namespace" ->
         "Namespace " \o Quoted(args.name) \o " created successfully"
    [] name = "k8s_delete_namespace" ->
         "Namespace " \o Quoted(args.name) \o " deleted"
    [] name = "k8s_get_pod_logs" ->
         (IF r.stdout # "" THEN r.stdout ELSE "No logs available")
    [] name = "k8s_delete_pod" ->
         "Pod " \o Quoted(args.name) \o " deleted from namespace " \o Quoted(ns)
    [] name = "k8s_scale_deployment" ->
         "Deployment " \o Quoted(args.name) \o " scaled to "
         \o ToStr(args.replicas) \o " replicas"
    [] name = "k8s_restart_deployment" ->
         "Deployment " \o Quoted(args.name) \o " restarted"
    [] name = "k8s_update_deployment_image" ->
         "Deployment " \o Quoted(args.name) \o " container "
         \o Quoted(args.container) \o " updated to image " \o Quoted(args.image)
    [] name = "k8s_create_configmap" ->
         "ConfigMap " \o Quoted(args.name) \o " created in namespace " \o Quoted(ns)
    [] name = "k8s_delete_configmap" ->
         "ConfigMap " \o Quoted(args.name) \o " deleted from namespace " \o Quoted(ns)
    [] name = "k8s_create_secret" ->
         "Secret " \o Quoted(args.name) \o " created in namespace " \o Quoted(ns)
    [] name = "k8s_delete_secret" ->
         "Secret " \o Quoted(args.name) \o " deleted from namespace " \o Quoted(ns)
    [] name = "k8s_scale_statefulset" ->
         "StatefulSet " \o Quoted(args.name) \o " scaled to "
         \o ToStr(args.replicas) \o " replicas"
    [] name = "k8s_apply_manifest" -> r.stdout \o r.stderr
    [] name = "k8s_delete_resource" ->
         ToStr(args.resource_type) \o " " \o Quoted(args.name)
         \o " deleted from namespace " \o Quoted(ns)
    [] name = "k8s_current_context" -> Trim(r.stdout)
    [] OTHER -> r.stdout

\* the message of the error a branch raises on a nonzero exit status
FailureMessage(name, r) ==
  IF name \in {"k8s_top_nodes", "k8s_top_pods"} /\ r.stderr = ""
  THEN "Metrics server may not be installed"
  ELSE r.stderr

\* every branch testing result.code, that of k8s_exec_pod too
ChecksExitCodeAlways(name) == KnownTool(name)

\* whether the branch tests result.code at all: k8s_exec_pod does not
\* (lines 873-874)
ChecksExitCode(name) == name # "k8s_exec_pod"

\* handleTool from the result of runKubectl to its return or its throw
handleToolReturn(name, args, ns, r) ==
  IF ~ChecksExitCode(name) THEN Returned(r.stdout \o r.stderr)
  ELSE IF r.code # 0 THEN Thrown(FailureMessage(name, r))
  ELSE IF name \in JsonTools THEN JsonReturn(name, args, r.stdout)
  ELSE Returned(SuccessText(name, args, ns, r))

(***************************************************************************)
(* The CallToolRequestSchema handler (lines 1254-1267): the response it    *)
(* returns for what handleTool returned or raised.  failed says that the   *)
(* handler itself ended with an error; it never does.                      *)
(***************************************************************************)
\* the handler without its catch: an error handleTool raises ends the
\* handler
CallToolResponseUncaught(outcome) ==
  IF outcome.threw
  THEN [failed |-> TRUE, isError |-> FALSE, text |-> ""]
  ELSE [failed |-> FALSE, isError |-> FALSE, text |-> outcome.text]

CallToolResponse(outcome) ==
  IF outcome.threw
  THEN [failed |-> FALSE, isError |-> TRUE, text |-> "Error: " \o outcome.msg]
  ELSE [failed |-> FALSE, isError |-> FALSE, text |-> outcome.text]

(***************************************************************************)
(* The inputs: environments, requests and process behaviours.              *)
(***************************************************************************)
LocalEnv == EnvOf("", "", "", "", "", "", "", "", "linux")
ConfiguredEnv ==
  EnvOf("/home/op/.kube/config", "staging", "team-a", "/usr/local/bin/kubectl",
        "", "", "", "", "linux")
RemoteKeyEnv ==
  EnvOf("", "", "kube-system", "", "10.0.0.5", "op", "", "/home/op/.ssh/id", "linux")

\* every combination of the settings runKubectl reads, set or not
ExecutorEnvs ==
  {EnvOf(kubeconfig, context, "", kubectlPath, host, user, password, key, platform) :
     kubeconfig \in {"", "/home/op/.kube/config"}, context \in {"", "staging"},
     kubectlPath \in {"", "/usr/local/bin/kubectl"}, host \in {"", "10.0.0.5"},
     user \in {"", "op"}, password \in {"", "s3cret"},
     key \in {"", "/home/op/.ssh/id_ed25519"}, platform \in {"linux", "win32"}}

Envs(sc) ==
  CASE sc = "concurrent" -> {LocalEnv}
    [] sc = "executor" -> ExecutorEnvs
    [] OTHER -> {LocalEnv, ConfiguredEnv, RemoteKeyEnv}

\* an argument mapping with the given keys set
With(given) == given @@ NoArgs

Request(name, hasArgs, args) == [name |-> name, hasArgs |-> hasArgs, args |-> args]

Namespaces == {Undefined, Str(""), Str("prod")}

ListTools ==
  {"k8s_list_pods", "k8s_list_deployments", "k8s_list_services",
   "k8s_list_configmaps", "k8s_list_secrets", "k8s_list_statefulsets",
   "k8s_list_daemonsets", "k8s_list_ingresses", "k8s_get_events",
   "k8s_top_pods"}

UnknownNames == {"k8s_reboot_node", "list_pods", ""}

\* the argument mappings a caller may send with a tool name
ArgsFor(name) ==
  CASE name \in ListTools ->
         {With([namespace |-> ns, all_namespaces |-> all, label_selector |-> sel]) :
            ns \in Namespaces, all \in {Undefined, Bool(TRUE), Bool(FALSE)},
            sel \in IF name = "k8s_list_pods"
                    THEN {Undefined, Str("app=web")} ELSE {Undefined}}
    [] name = "k8s_get_pod_logs" ->
         {With([name |-> Str("web"), namespace |-> ns, container |-> c,
                previous |-> p, tail |-> tl, since |-> s]) :
            ns \in {Undefined, Str("prod")}, c \in {Undefined, Str("app")},
            p \in {Undefined, Bool(TRUE)}, tl \in {Undefined, Num(0), Num(100)},
            s \in {Undefined, Str("5m")}}
    [] name = "k8s_exec_pod" ->
         {With([name |-> Str("web"), namespace |-> ns, container |-> c,
                command |-> cmd]) :
            ns \in {Undefined, Str("prod")}, c \in {Undefined, Str("app")},
            cmd \in {Undefined, Str("date"), Str("ls -la /tmp")}}
    [] name \in {"k8s_scale_deployment", "k8s_scale_statefulset"} ->
         {With([name |-> nm, namespace |-> ns, replicas |-> n]) :
            nm \in {Str("web"), Str("my-deployment")}, ns \in Namespaces,
            n \in {Undefined, Num(0), Num(3)}}
    [] name = "k8s_update_deployment_image" ->
         {With([name |-> Str("web"), namespace |-> ns, container |-> Str("app"),
                image |-> Str("nginx:1.26")]) : ns \in Namespaces}
    [] name = "k8s_get_secret" ->
         {With([name |-> Str("db"), namespace |-> ns, decode |-> d]) :
            ns \in {Undefined, Str("prod")},
            d \in {Undefined, Bool(TRUE), Bool(FALSE)}}
    [] name \in {"k8s_create_configmap", "k8s_create_secret"} ->
         {With([name |-> Str("cfg"), namespace |-> ns, data |-> d, type |-> ty]) :
            ns \in {Undefined, Str("prod")},
            d \in {Undefined, Obj(<<>>),
                   Obj(<< <<"mode", Str("fast")>>, <<"level", Num(3)>> >>)},
            ty \in IF name = "k8s_create_secret"
                   THEN {Undefined, Str("tls")} ELSE {Undefined}}
    [] name = "k8s_apply_manifest" ->
         {With([namespace |-> ns, manifest |-> m, dry_run |-> dr]) :
            ns \in Namespaces, m \in {Undefined, Str(""), Str("kind: Pod")},
            dr \in {Undefined, Bool(TRUE), Bool(FALSE)}}
    [] name \in {"k8s_delete_pod", "k8s_delete_resource"} ->
         {With([name |-> Str("web"), namespace |-> ns, force |-> f,
                resource_type |-> rt]) :
            ns \in {Undefined, Str("prod")}, f \in {Undefined, Bool(TRUE)},
            rt \in IF name = "k8s_delete_resource"
                   THEN {Str("job")} ELSE {Undefined}}
    [] name = "k8s_get_resource_yaml" ->
         {With([name |-> Str("web"), namespace |-> ns, resource_type |-> Str("job")]) :
            ns \in {Undefined, Str("prod")}}
    [] name = "k8s_rollout_undo" ->
         {With([name |-> Str("web"), namespace |-> ns, revision |-> r]) :
            ns \in {Undefined, Str("prod")}, r \in {Undefined, Num(2)}}
    [] name = "k8s_get_pod" ->
         {With([name |-> nm, namespace |-> ns]) :
            nm \in {Undefined, Str("web")}, ns \in Namespaces}
    [] name \in UnknownNames ->
         {With([namespace |-> ns]) : ns \in {Undefined, Str("prod")}}
    [] OTHER ->
         {With([name |-> Str("web"), namespace |-> ns]) :
            ns \in {Undefined, Str("prod")}}

\* the requests a client may send: every tool of the catalog and some
\* names that are not in it, each with and without an argument mapping
AllRequests ==
  UNION {{Request(name, TRUE, a) : a \in ArgsFor(name)}
         \cup {Request(name, FALSE, NoArgs)} : name \in ToolNames \cup UnknownNames}

\* a few requests of every kind of outcome, for the runs that follow a
\* sequence of calls
FewRequests ==
  {Request("k8s_list_pods", TRUE, NoArgs),
   Request("k8s_delete_pod", TRUE, With([name |-> Str("web")])),
   Request("k8s_get_secret", TRUE, With([name |-> Str("db"), decode |-> Bool(TRUE)])),
   Request("k8s_exec_pod", TRUE, With([name |-> Str("web"), command |-> Str("date")])),
   Request("k8s_reboot_node", TRUE, NoArgs),
   Request("k8s_list_nodes", FALSE, NoArgs)}

\* the requests of the calls that run side by side
PairedRequests ==
  {Request("k8s_list_pods", TRUE, NoArgs),
   Request("k8s_delete_pod", TRUE, With([name |-> Str("web")])),
   Request("k8s_exec_pod", TRUE, With([name |-> Str("web"), command |-> Str("date")]))}

\* requests whose arguments hold spaces, single quotes and double quotes
ExecutorRequests ==
  {Request("k8s_get_cluster_info", TRUE, NoArgs),
   Request("k8s_exec_pod", TRUE,
           With([name |-> Str("web"), command |-> Str("sh -c \"ls\"")]))}
  \cup {Request("k8s_list_pods", TRUE, With([label_selector |-> Str(sel)])) :
          sel \in {"app=web", "app=\"web\"", "app in (web, api)", "it's",
                   "tier in (\"a b\")"}}

Requests(sc) ==
  CASE sc = "sequence" -> FewRequests
    [] sc = "executor" -> ExecutorRequests
    [] sc \in {"concurrent", "startup"} -> PairedRequests
    [] OTHER -> AllRequests

\* what the process of a call may write to its standard output
Outputs(name) ==
  CASE name = "k8s_get_secret" ->
         {DocText(SecretDoc), DocText(SecretDoc2), DocText(SecretEmptyData),
          DocText(SecretNoData)}
    [] name \in JsonTools -> {DocText(ResourceDoc), DocText(BareDoc), DocText(Null)}
    [] OTHER -> {"", TableText}

\* and to its standard error
ErrorOutputs == {"", ErrorText}

\* the exit status the close event carries: null after a signal
ExitCodes == {Null, Num(0), Num(1)}

SpawnErrors == {"spawn /bin/sh ENOENT"}

Slots(sc) == IF sc = "concurrent" THEN 1..MaxCalls ELSE {1}

(***************************************************************************)
(* The state machine.                                                      *)
(***************************************************************************)
NoOutcome == [threw |-> FALSE, msg |-> "", text |-> "", obj |-> Undefined]
NoResponse == [failed |-> FALSE, isError |-> FALSE, text |-> ""]

IdleCall ==
  [phase |-> "idle", name |-> "", hasArgs |-> FALSE, args |-> NoArgs,
   ns |-> Undefined, kargs |-> <<>>, spawned |-> 0, proc |-> NoProc,
   outcome |-> NoOutcome, response |-> NoResponse, overlaps |-> FALSE]

\* what the observer of the "sequence" scenario keeps: whether a call
\* has succeeded, whether one has failed, and the first call it saw end
NoHistory == [ok |-> FALSE, failed |-> FALSE, first |-> <<>>]

\* a call as its client sees it: the request, what its process did, and
\* the response
Observed(call) ==
  [name |-> call.name, hasArgs |-> call.hasArgs, args |-> call.args,
   spawned |-> call.spawned, result |-> call.proc.result,
   response |-> call.response]

InitScenario(sc) ==
  /\ scenario = sc
  /\ env \in Envs(sc)
  /\ serverState = "init"
  /\ probe = NoProc
  /\ calls = [c \in Slots(sc) |-> IdleCall]
  /\ history = NoHistory
  /\ listed = <<>>

\* the server right after it was started
Init == InitScenario("serve")

\* the next chunk of a text a process writes: all that is left, or, while
\* the stream has chunks to spare, its first half
Cuts(left, sent) ==
  {Len(left)} \cup (IF sent + 1 < MaxChunks /\ Len(left) >= 2
                    THEN {Len(left) \div 2} ELSE {})

\* main, lines 1270-1284: the connectivity test is spawned
StartProbe ==
  /\ serverState = "init"
  /\ \E out \in {"", "Client Version: v1.29.0\n"}, err \in ErrorOutputs :
       probe' = SpawnProc(SpawnPlan(env, StrSeq(<<"version", "--short">>)),
                          Undefined, out, err)
  /\ serverState' = "probing"
  /\ UNCHANGED <<env, calls, scenario, history, listed>>

\* the test's process once main has its result: main only logs the result
\* (lines 1285-1290) and keeps nothing of it
ProbeDone == [NoProc EXCEPT !.settled = TRUE]

\* main connecting the transport only after a test that succeeded
ProbeSettlesOnSuccess(p) ==
  /\ probe' = p
  /\ serverState' = IF p.settled /\ p.result.code = 0 THEN "serving"
                    ELSE serverState
  /\ UNCHANGED <<env, calls, scenario, history, listed>>

\* main, lines 1284-1295, once the promise of the test is settled: the
\* transport is connected whatever the result.  The "startup" scenario
\* keeps the ended process for its observer.
ProbeSettles(p) ==
  /\ probe' = IF p.settled /\ scenario # "startup" THEN ProbeDone ELSE p
  /\ serverState' = IF p.settled THEN "serving" ELSE serverState
  /\ UNCHANGED <<env, calls, scenario, history, listed>>

ProbeEvent ==
  /\ serverState = "probing"
  /\ ~probe.closed
  /\ \/ /\ probe.toOut # ""
        /\ ProbeSettles([onStdoutData(probe, probe.toOut) EXCEPT !.toOut = ""])
     \/ /\ probe.toErr # ""
        /\ ProbeSettles([onStderrData(probe, probe.toErr) EXCEPT !.toErr = ""])
     \/ \E code \in ExitCodes : ProbeSettles(onClose(probe, code))
     \/ /\ ~probe.errored
        /\ \E m \in SpawnErrors : ProbeSettles(onError(probe, m))

\* another call is waiting for its process as call c starts (noted for
\* the observer; the handler does not know)
InFlight(c) == \E d \in DOMAIN calls : d # c /\ calls[d].phase = "awaiting"

\* the handler of a tool call runs handleTool up to its await
CallTool(c) ==
  /\ serverState = "serving"
  /\ calls[c].phase = "idle"
  /\ \E req \in Requests(scenario) :
       LET h == handleToolCall(env, req.name, req.hasArgs, req.args)
           base == [IdleCall EXCEPT !.name = req.name, !.hasArgs = req.hasArgs,
                                    !.args = req.args, !.ns = h.ns,
                                    !.kargs = h.kargs,
                                    !.overlaps = InFlight(c)]
       IN  IF h.spawns
           THEN \E out \in Outputs(req.name), err \in ErrorOutputs :
                  calls' = [calls EXCEPT ![c] =
                    [base EXCEPT !.phase = "awaiting", !.spawned = 1,
                                 !.proc = SpawnProc(h, h.stdin, out, err)]]
           ELSE calls' = [calls EXCEPT ![c] =
                  [base EXCEPT !.phase = "answered",
                               !.outcome = [NoOutcome EXCEPT !.threw = TRUE,
                                                             !.msg = h.msg],
                               !.response = CallToolResponse(
                                  [NoOutcome EXCEPT !.threw = TRUE, !.msg = h.msg])]]
  /\ UNCHANGED <<env, serverState, probe, scenario, history, listed>>

\* Deliver with a retry: a process that failed is spawned once more
DeliverRetrying(c, p) ==
  LET call == calls[c]
      outcome == handleToolReturn(call.name, call.args, call.ns, p.result)
  IN
  /\ calls' = [calls EXCEPT ![c] =
       IF p.settled /\ ~call.proc.settled
       THEN IF p.result.code # 0 /\ call.spawned < 2
            THEN [call EXCEPT !.spawned = @ + 1,
                              !.proc = [NoProc EXCEPT !.command = p.command,
                                                      !.spawnArgs = p.spawnArgs]]
            ELSE [call EXCEPT !.proc = p, !.phase = "answered",
                              !.outcome = outcome,
                              !.response = CallToolResponse(outcome)]
       ELSE [call EXCEPT !.proc = p]]
  /\ UNCHANGED <<env, serverState, probe, scenario, history, listed>>

\* Deliver not waiting for the end of a process that wrote to its
\* standard error
DeliverEarly(c, p) ==
  LET call == calls[c]
      early == ~p.settled /\ p.stderr # ""
      r == IF early THEN [stdout |-> p.stdout, stderr |-> p.stderr, code |-> 1]
           ELSE p.result
      outcome == handleToolReturn(call.name, call.args, call.ns, r)
  IN
  /\ calls' = [calls EXCEPT ![c] =
       IF call.phase = "awaiting" /\ (p.settled \/ early)
       THEN [call EXCEPT !.proc = p, !.phase = "answered", !.outcome = outcome,
                         !.response = CallToolResponse(outcome)]
       ELSE [call EXCEPT !.proc = p]]
  /\ UNCHANGED <<env, serverState, probe, scenario, history, listed>>

\* Deliver in a server that an error of handleTool brings down
DeliverStopping(c, p) ==
  LET call == calls[c]
      outcome == handleToolReturn(call.name, call.args, call.ns, p.result)
      answers == p.settled /\ ~call.proc.settled
  IN
  /\ calls' = [calls EXCEPT ![c] =
       IF answers
       THEN [call EXCEPT !.proc = p, !.phase = "answered", !.outcome = outcome,
                         !.response = CallToolResponse(outcome)]
       ELSE [call EXCEPT !.proc = p]]
  /\ serverState' = IF answers /\ outcome.threw THEN "stopped" ELSE serverState
  /\ UNCHANGED <<env, probe, scenario, history, listed>>

\* an event of the process of call c was handled and left the process as
\* p: when this settled the promise, handleTool resumes and the handler
\* answers
Deliver(c, p) ==
  LET call == calls[c]
      outcome == handleToolReturn(call.name, call.args, call.ns, p.result)
  IN
  /\ calls' = [calls EXCEPT ![c] =
       IF p.settled /\ ~call.proc.settled
       THEN [call EXCEPT !.proc = p, !.phase = "answered", !.outcome = outcome,
                         !.response = CallToolResponse(outcome)]
       ELSE [call EXCEPT !.proc = p]]
  /\ UNCHANGED <<env, serverState, probe, scenario, history, listed>>

Spawned(c) == calls[c].spawned > 0 /\ ~calls[c].proc.closed

\* StdoutData with one accumulator for all processes: a chunk is added to
\* the output of every call that waits
StdoutDataShared(c) ==
  /\ Spawned(c)
  /\ calls[c].proc.toOut # ""
  /\ \E n \in Cuts(calls[c].proc.toOut, calls[c].proc.chunks) :
       LET p == calls[c].proc
           chunk == SubSeq(p.toOut, 1, n)
       IN  calls' = [d \in DOMAIN calls |->
             IF d = c
             THEN [calls[c] EXCEPT !.proc =
                    [onStdoutData(p, chunk) EXCEPT
                       !.toOut = SubSeq(p.toOut, n + 1, Len(p.toOut)),
                       !.chunks = @ + 1, !.sentOut = @ \o chunk]]
             ELSE IF calls[d].phase = "awaiting"
             THEN [calls[d] EXCEPT !.proc = onStdoutData(@, chunk)]
             ELSE calls[d]]
  /\ UNCHANGED <<env, serverState, probe, scenario, history, listed>>

StdoutData(c) ==
  /\ Spawned(c)
  /\ calls[c].proc.toOut # ""
  /\ \E n \in Cuts(calls[c].proc.toOut, calls[c].proc.chunks) :
       LET p == calls[c].proc IN
       Deliver(c, [onStdoutData(p, SubSeq(p.toOut, 1, n)) EXCEPT
                     !.toOut = SubSeq(p.toOut, n + 1, Len(p.toOut)),
                     !.chunks = @ + 1,
                     !.sentOut = @ \o SubSeq(p.toOut, 1, n)])

StderrData(c) ==
  /\ Spawned(c)
  /\ calls[c].proc.toErr # ""
  /\ LET p == calls[c].proc IN
     Deliver(c, [onStderrData(p, p.toErr) EXCEPT !.toErr = "",
                                                 !.sentErr = @ \o p.toErr])

Close(c) ==
  /\ Spawned(c)
  /\ \E code \in ExitCodes : Deliver(c, onClose(calls[c].proc, code))

\* an error event may follow the close event as well as precede it
ErrorEvent(c) ==
  /\ calls[c].spawned > 0
  /\ ~calls[c].proc.errored
  /\ \E m \in SpawnErrors : Deliver(c, onError(calls[c].proc, m))

\* the client has its answer and uses the slot for its next request; the
\* observer of the "sequence" scenario notes how the call ended
Forget(c) ==
  /\ calls[c].phase = "answered"
  /\ calls' = [calls EXCEPT ![c] = IdleCall]
  /\ history' = IF scenario = "sequence"
                THEN [ok |-> history.ok \/ ~calls[c].response.isError,
                      failed |-> history.failed \/ calls[c].response.isError,
                      first |-> IF history.first = <<>>
                                THEN <<Observed(calls[c])>> ELSE history.first]
                ELSE history
  /\ UNCHANGED <<env, serverState, probe, scenario, listed>>

\* the handler with some tool left out while a call waits for its process
ListToolsRequestBusy ==
  /\ serverState = "serving"
  /\ listed' = IF \E c \in DOMAIN calls : calls[c].phase = "awaiting"
               THEN SubSeq(tools, 1, Len(tools) - 1) ELSE tools
  /\ UNCHANGED <<env, serverState, probe, calls, scenario, history>>

\* the ListToolsRequestSchema handler (lines 1249-1251) answers with tools
ListToolsRequest ==
  /\ serverState = "serving"
  /\ listed' = tools
  /\ UNCHANGED <<env, serverState, probe, calls, scenario, history>>

Next ==
  \/ StartProbe
  \/ ProbeEvent
  \/ ListToolsRequest
  \/ \E c \in Slots(scenario) : CallTool(c)
  \/ \E c \in Slots(scenario) : StdoutData(c)
  \/ \E c \in Slots(scenario) : StderrData(c)
  \/ \E c \in Slots(scenario) : Close(c)
  \/ \E c \in Slots(scenario) : ErrorEvent(c)
  \/ \E c \in Slots(scenario) : Forget(c)

Spec == Init /\ [][Next]_vars

\* the same server, watched over a sequence of calls
InitSequence == InitScenario("sequence")

SpecSequence == InitSequence /\ [][Next]_vars

\* the same server in every configuration of its executor
InitExecutor == InitScenario("executor")

SpecExecutor == InitExecutor /\ [][Next]_vars

\* the same server with MaxCalls calls in flight at once
InitConcurrent == InitScenario("concurrent")

SpecConcurrent == InitConcurrent /\ [][Next]_vars

\* the same server, watched from its start
InitStartup == InitScenario("startup")

SpecStartup == InitStartup /\ [][Next]_vars

(***************************************************************************)
(* The claims.                                                             *)
(***************************************************************************)
CallIds == DOMAIN calls

Answered(c) == calls[c].phase = "answered"

\* the process of call c ended (close was the first event to settle the
\* promise) with an exit status that is not 0
ExitedNonzero(c) ==
  /\ calls[c].spawned > 0
  /\ calls[c].proc.settledBy = "close"
  /\ calls[c].proc.exit.k = "number"
  /\ calls[c].proc.exit.n # 0

ExitedZero(c) ==
  /\ calls[c].spawned > 0
  /\ calls[c].proc.settledBy = "close"
  /\ calls[c].proc.exit = Num(0)

\* sub occurs in text
Contains(text, sub) ==
  \/ sub = ""
  \/ \E i \in 1..(Len(text) - Len(sub) + 1) : SubSeq(text, i, i + Len(sub) - 1) = sub

\* how often the string x occurs in an argument list
Count(kargs, x) == Cardinality({i \in DOMAIN kargs : kargs[i] = Str(x)})

(* C1: for every tool of the catalog, a nonzero exit status of the process *)
(* gives a response flagged as an error whose text contains the captured   *)
(* standard-error text.  The code breaks it: k8s_exec_pod never tests the  *)
(* exit status.                                                            *)
C1_NonzeroExitIsFlagged ==
  \A c \in CallIds :
    (Answered(c) /\ calls[c].name \in ToolNames /\ ExitedNonzero(c))
      => /\ calls[c].response.isError
         /\ Contains(calls[c].response.text, calls[c].proc.result.stderr)

(* C2: a call whose name the dispatcher does not know is answered with a   *)
(* flagged error carrying "Unknown tool: <name>" and spawns no process,    *)
(* whatever the argument mapping, a missing one included.  The code breaks *)
(* it: without a mapping args.namespace raises before the switch is        *)
(* reached.                                                                *)
C2_UnknownToolMessage ==
  \A c \in CallIds :
    (calls[c].phase # "idle" /\ ~KnownTool(calls[c].name))
      => /\ Answered(c)
         /\ calls[c].response.isError
         /\ Contains(calls[c].response.text, "Unknown tool: " \o calls[c].name)
         /\ calls[c].spawned = 0

\* the namespace a call resolves to, as the claim states it
ConfiguredDefault ==
  IF env.K8S_DEFAULT_NAMESPACE # "" THEN env.K8S_DEFAULT_NAMESPACE ELSE "default"

ExpectedNamespace(c) ==
  IF calls[c].args.namespace.k = "string" /\ calls[c].args.namespace.s # ""
  THEN calls[c].args.namespace.s
  ELSE ConfiguredDefault

\* the tools whose success text names the namespace
NamesNamespace ==
  {"k8s_delete_pod", "k8s_create_configmap", "k8s_delete_configmap",
   "k8s_create_secret", "k8s_delete_secret", "k8s_delete_resource"}

(* C3: an omitted or empty namespace resolves to the configured default    *)
(* (the environment's, or "default"), a supplied one is used unchanged,    *)
(* and every use within the call is that one value: the value after -n     *)
(* and the namespace the success text names.                               *)
C3_NamespaceResolvedOnce ==
  \A c \in CallIds :
    (calls[c].phase # "idle" /\ calls[c].hasArgs)
      => /\ calls[c].ns = Str(ExpectedNamespace(c))
         /\ \A i \in DOMAIN calls[c].kargs :
              calls[c].kargs[i] = Str("-n")
                => /\ i < Len(calls[c].kargs)
                   /\ calls[c].kargs[i + 1] = Str(ExpectedNamespace(c))
         /\ (Answered(c) /\ calls[c].name \in NamesNamespace
             /\ ~calls[c].response.isError)
              => Contains(calls[c].response.text,
                          "namespace '" \o ExpectedNamespace(c) \o "'")

\* a call with the namespace left out ran with -n and named the
\* environment's default in its success text
C3_Witness ==
  \E c \in CallIds :
    /\ Answered(c)
    /\ calls[c].name = "k8s_delete_pod"
    /\ calls[c].args.namespace = Undefined
    /\ env.K8S_DEFAULT_NAMESPACE = "team-a"
    /\ Count(calls[c].kargs, "-n") = 1
    /\ ~calls[c].response.isError
    /\ calls[c].response.text = "Pod 'web' deleted from namespace 'team-a'"

(* C4: the argument list of a list-style tool holds exactly one namespace  *)
(* scope: --all-namespaces and no -n when all_namespaces is true (even     *)
(* with a namespace supplied), else -n with the resolved namespace and no  *)
(* --all-namespaces.                                                       *)
C4_OneNamespaceScope ==
  \A c \in CallIds :
    (calls[c].spawned > 0 /\ calls[c].name \in ListTools)
      => IF calls[c].args.all_namespaces = Bool(TRUE)
         THEN /\ Count(calls[c].kargs, "--all-namespaces") = 1
              /\ Count(calls[c].kargs, "-n") = 0
         ELSE /\ Count(calls[c].kargs, "--all-namespaces") = 0
              /\ Count(calls[c].kargs, "-n") = 1
              /\ \E i \in 1..(Len(calls[c].kargs) - 1) :
                   /\ calls[c].kargs[i] = Str("-n")
                   /\ calls[c].kargs[i + 1] = Str(ExpectedNamespace(c))

\* a list call with all_namespaces true and a namespace supplied as well
C4_Witness ==
  \E c \in CallIds :
    /\ calls[c].spawned > 0
    /\ calls[c].name = "k8s_list_pods"
    /\ calls[c].args.all_namespaces = Bool(TRUE)
    /\ calls[c].args.namespace = Str("prod")
    /\ calls[c].kargs = StrSeq(<<"get", "pods", "-o", "wide", "--all-namespaces">>)

\* the code of a character of the model's texts
CodeOf(ch) ==
  CASE ch = "\t" -> 9
    [] ch = "\n" -> 10
    [] ch = "\r" -> 13
    [] OTHER -> 31 + (CHOOSE i \in 1..Len(AsciiPrintable) :
                        i # 65 /\ CharAt(AsciiPrintable, i) = ch)

RECURSIVE Utf8Encode(_)
\* the bytes of a text in UTF-8: U+FFFD is EF BF BD
Utf8Encode(text) ==
  IF text = "" THEN <<>>
  ELSE (IF Head(text) = ReplacementChar THEN <<239, 191, 189>>
        ELSE <<CodeOf(Head(text))>>) \o Utf8Encode(Tail(text))

Base64Char(v) == CharAt(Base64Alphabet, v + 1)

RECURSIVE Base64Encode(_)
\* the padded base64 text of a sequence of bytes (RFC 4648)
Base64Encode(b) ==
  IF Len(b) = 0 THEN ""
  ELSE IF Len(b) = 1
  THEN Base64Char(b[1] \div 4) \o Base64Char((b[1] % 4) * 16) \o "=="
  ELSE IF Len(b) = 2
  THEN Base64Char(b[1] \div 4) \o Base64Char((b[1] % 4) * 16 + b[2] \div 16)
       \o Base64Char((b[2] % 16) * 4) \o "="
  ELSE Base64Char(b[1] \div 4) \o Base64Char((b[1] % 4) * 16 + b[2] \div 16)
       \o Base64Char((b[2] % 16) * 4 + b[3] \div 64) \o Base64Char(b[3] % 64)
       \o Base64Encode(SubSeq(b, 4, Len(b)))

\* the secret the process of call c wrote, and the view the call returned
StoredSecret(c) == JSONParse(calls[c].proc.result.stdout).value
ReturnedView(c) == calls[c].outcome.obj

(* C5: k8s_get_secret returns decoded values exactly when decode is true   *)
(* and the secret has data; decodedData then has exactly the secret's keys *)
(* and each value is the base64 decoding of the stored one, so that        *)
(* encoding it again gives the stored value.  The code breaks the last     *)
(* part: the decoded bytes are read as UTF-8, and a byte that is not valid *)
(* UTF-8 comes out as U+FFFD.                                              *)
C5_SecretDecoding ==
  \A c \in CallIds :
    (Answered(c) /\ calls[c].name = "k8s_get_secret" /\ ~calls[c].response.isError)
      => LET stored == StoredSecret(c)
             view == ReturnedView(c)
             data == Get(stored, "data")
             decoded == Get(view, "decodedData")
         IN  /\ HasKey(view, "decodedData")
                  <=> (calls[c].args.decode = Bool(TRUE) /\ HasKey(stored, "data"))
             /\ HasKey(view, "decodedData")
                  => /\ Keys(decoded) = Keys(data)
                     /\ \A i \in DOMAIN data.e :
                          /\ decoded.e[i][2].k = "string"
                          /\ Base64Encode(Utf8Encode(decoded.e[i][2].s))
                               = data.e[i][2].s

(* C6: k8s_scale_deployment with a name, a replica count n (0 included)    *)
(* and no namespace runs scale deployment <name> -n <configured default>   *)
(* --replicas=<n>; after exit status 0 the response is unflagged and its   *)
(* text states the name and n.                                             *)
C6_ScaleDeployment ==
  \A c \in CallIds :
    (/\ calls[c].phase # "idle"
     /\ calls[c].name = "k8s_scale_deployment"
     /\ calls[c].hasArgs
     /\ calls[c].args.namespace = Undefined
     /\ calls[c].args.name.k = "string"
     /\ calls[c].args.replicas.k = "number")
      => LET name == calls[c].args.name.s
             n == NatToString(calls[c].args.replicas.n)
         IN  /\ calls[c].spawned = 1
             /\ calls[c].kargs =
                  StrSeq(<<"scale", "deployment", name, "-n", ConfiguredDefault,
                           "--replicas=" \o n>>)
             /\ (Answered(c) /\ ExitedZero(c))
                  => /\ ~calls[c].response.isError
                     /\ calls[c].response.text =
                          "Deployment '" \o name \o "' scaled to " \o n \o " replicas"

\* a deployment scaled to 0 in the environment's default namespace
C6_Witness ==
  \E c \in CallIds :
    /\ Answered(c)
    /\ ExitedZero(c)
    /\ calls[c].name = "k8s_scale_deployment"
    /\ calls[c].args.namespace = Undefined
    /\ calls[c].args.replicas = Num(0)
    /\ env.K8S_DEFAULT_NAMESPACE = "team-a"
    /\ calls[c].kargs = StrSeq(<<"scale", "deployment", "my-deployment", "-n",
                                 "team-a", "--replicas=0">>)
    /\ calls[c].response.text = "Deployment 'my-deployment' scaled to 0 replicas"

\* over SSH the executor reads every argument as a string
RemoteMode == env.K8S_SSH_HOST # ""

\* the calls that raise before their process is spawned: no argument
\* mapping to read, no command to split, no data to list, and over SSH an
\* argument that is not a string
RaisesBeforeSpawn(c) ==
  \/ ~calls[c].hasArgs
  \/ calls[c].name = "k8s_exec_pod" /\ calls[c].args.command.k # "string"
  \/ /\ calls[c].name \in {"k8s_create_configmap", "k8s_create_secret"}
     /\ calls[c].args.data.k \in {"undefined", "null"}
  \/ RemoteMode /\ \E i \in DOMAIN calls[c].kargs : calls[c].kargs[i].k # "string"

(* C7 as stated: every invocation of a known tool spawns exactly one       *)
(* external process, whatever the outcome.                                 *)
C7_ExactlyOneProcess ==
  \A c \in CallIds :
    (calls[c].phase # "idle" /\ calls[c].name \in ToolNames)
      => calls[c].spawned = 1

(* C7 amended: an invocation of a known tool spawns at most one external   *)
(* process: none when handling raises before the spawn, exactly one        *)
(* otherwise; whatever the outcome, the call is never re-run and no second *)
(* process is started for it.                                              *)
C7_AtMostOneProcess ==
  \A c \in CallIds :
    /\ calls[c].spawned <= 1
    /\ (calls[c].phase # "idle" /\ calls[c].name \in ToolNames)
         => /\ calls[c].spawned = (IF RaisesBeforeSpawn(c) THEN 0 ELSE 1)
            /\ Answered(c) => calls[c].proc.settled = (calls[c].spawned = 1)

\* a call whose process failed was answered with a flagged error and
\* still counts one process
C7_Witness ==
  \E c \in CallIds :
    /\ Answered(c)
    /\ calls[c].name = "k8s_delete_pod"
    /\ ExitedNonzero(c)
    /\ calls[c].response.isError
    /\ calls[c].spawned = 1

(* C8: after an error event of the process the executor returns, without   *)
(* raising, a result of nonzero code, empty standard output and the        *)
(* error's message as standard-error text, and the call that issued it     *)
(* ends as a flagged error response.  The code breaks the last part for    *)
(* k8s_exec_pod, which does not test the code (see C1).                    *)
C8_SpawnErrorIsFlagged ==
  \A c \in CallIds :
    (calls[c].spawned > 0 /\ calls[c].proc.settledBy = "error")
      => /\ calls[c].proc.result.code # 0
         /\ calls[c].proc.result.stdout = ""
         /\ calls[c].proc.result.stderr \in SpawnErrors
         /\ Answered(c)
         /\ calls[c].response.isError

\* the get tools that read fields of the parsed document; the others
\* return it as it is
ProjectingTools ==
  {"k8s_get_node", "k8s_get_pod", "k8s_get_deployment", "k8s_get_service",
   "k8s_get_configmap", "k8s_get_secret"}

(* C9: an error raised while a tool call is handled (output of a get tool  *)
(* that is not JSON or lacks the fields read, no argument mapping, ...) is *)
(* caught by the call handler and returned as a flagged response with the  *)
(* text "Error: " and the message; the handler itself never fails.         *)
C9_ErrorsAreCaught ==
  \A c \in CallIds :
    Answered(c)
      => /\ ~calls[c].response.failed
         /\ calls[c].outcome.threw
              => /\ calls[c].response.isError
                 /\ calls[c].response.text = "Error: " \o calls[c].outcome.msg
         /\ ~calls[c].hasArgs
              => /\ calls[c].response.isError
                 /\ calls[c].response.text =
                      "Error: Cannot read properties of undefined (reading 'namespace')"
         /\ (/\ calls[c].name \in JsonTools
             /\ calls[c].spawned = 1
             /\ calls[c].proc.result.code = 0
             /\ \/ ~JSONParse(calls[c].proc.result.stdout).ok
                \/ /\ calls[c].name \in ProjectingTools
                   /\ JSONParse(calls[c].proc.result.stdout).value
                        \in {BareDoc, Null})
              => /\ calls[c].response.isError
                 /\ SubSeq(calls[c].response.text, 1, 7) = "Error: "

\* a get tool whose process ended with status 0 and half a document
C9_Witness ==
  \E c \in CallIds :
    /\ Answered(c)
    /\ calls[c].name = "k8s_get_pod"
    /\ ExitedZero(c)
    /\ calls[c].proc.result.stdout # ""
    /\ ~JSONParse(calls[c].proc.result.stdout).ok
    /\ calls[c].outcome.threw
    /\ calls[c].response = [failed |-> FALSE, isError |-> TRUE,
                            text |-> "Error: " \o SyntaxErrorJSON]

\* the call in slot c is the first call of the run over again: the same
\* request and the same behaviour of its process
RepeatsFirst(c) ==
  /\ history.first # <<>>
  /\ Answered(c)
  /\ calls[c].name = history.first[1].name
  /\ calls[c].hasArgs = history.first[1].hasArgs
  /\ calls[c].args = history.first[1].args
  /\ calls[c].spawned = history.first[1].spawned
  /\ calls[c].proc.result = history.first[1].result

(* C10: after any sequence of calls, whatever the mix of successes and     *)
(* failures, the server is still serving and takes the next call, and a    *)
(* call that repeats the first call of the run is answered exactly as the  *)
(* first was.                                                              *)
C10_CallsAreIsolated ==
  \A c \in CallIds :
    /\ history.first # <<>> => serverState = "serving"
    /\ (history.first # <<>> /\ calls[c].phase = "idle") => ENABLED CallTool(c)
    /\ RepeatsFirst(c) => calls[c].response = history.first[1].response

\* the first call succeeded, a later call failed, and the first call's
\* request, sent again, got the first call's answer
C10_Witness ==
  \E c \in CallIds :
    /\ RepeatsFirst(c)
    /\ history.failed
    /\ calls[c].name = "k8s_delete_pod"
    /\ ~history.first[1].response.isError
    /\ calls[c].response.text = "Pod 'web' deleted from namespace 'team-a'"

\* what the process of call c itself gave the executor: all it wrote and
\* its exit status after a close, the error's message after an error
OwnResult(c) ==
  IF calls[c].proc.settledBy = "close"
  THEN [stdout |-> calls[c].proc.sentOut, stderr |-> calls[c].proc.sentErr,
        code |-> IF calls[c].proc.exit.k = "number" THEN calls[c].proc.exit.n ELSE 0]
  ELSE [stdout |-> "", stderr |-> "spawn /bin/sh ENOENT", code |-> 1]

\* the response of the three tools of PairedRequests, from their own
\* process alone
OwnResponse(c) ==
  LET r == OwnResult(c) IN
  CASE calls[c].name = "k8s_exec_pod" ->
         [failed |-> FALSE, isError |-> FALSE, text |-> r.stdout \o r.stderr]
    [] r.code # 0 ->
         [failed |-> FALSE, isError |-> TRUE, text |-> "Error: " \o r.stderr]
    [] calls[c].name = "k8s_list_pods" ->
         [failed |-> FALSE, isError |-> FALSE, text |-> r.stdout]
    [] calls[c].name = "k8s_delete_pod" ->
         [failed |-> FALSE, isError |-> FALSE,
          text |-> "Pod 'web' deleted from namespace 'default'"]

(* C11: with several calls in flight, under every interleaving of the      *)
(* chunks and the termination events of their processes, each call         *)
(* collects only what its own process wrote, and its response (text and    *)
(* error flag) is the one its own process's output and exit status give.   *)
C11_CallsDoNotMix ==
  \A c \in CallIds :
    calls[c].spawned > 0
      => /\ calls[c].proc.stdout = calls[c].proc.sentOut
         /\ calls[c].proc.stderr = calls[c].proc.sentErr
         /\ Answered(c) => /\ calls[c].proc.result = OwnResult(c)
                           /\ calls[c].response = OwnResponse(c)

\* a list call answered with the whole table, received in two chunks,
\* while another call, in flight since before it started, had printed an
\* error and was still waiting
C11_Witness ==
  \E c, d \in CallIds :
    /\ c # d
    /\ Answered(c)
    /\ calls[c].overlaps
    /\ calls[c].name = "k8s_list_pods"
    /\ calls[c].proc.chunks = 2
    /\ calls[c].response = [failed |-> FALSE, isError |-> FALSE, text |-> TableText]
    /\ calls[d].phase = "awaiting"
    /\ calls[d].proc.sentErr = ErrorText

\* the processes in the state: those of the calls and, while main waits
\* for it, the connectivity test's; args is what runKubectl was called with
Processes ==
  {[command |-> calls[c].proc.command, spawnArgs |-> calls[c].proc.spawnArgs,
    args |-> calls[c].kargs] : c \in {d \in CallIds : calls[d].spawned > 0}}
  \cup (IF serverState = "probing"
        THEN {[command |-> probe.command, spawnArgs |-> probe.spawnArgs,
               args |-> StrSeq(<<"version", "--short">>)]}
        ELSE {})

RemoteShellClients == {"ssh", "plink", "sshpass"}

StartsWith(text, prefix) ==
  Len(text) >= Len(prefix) /\ SubSeq(text, 1, Len(prefix)) = prefix

(* C12: the executor takes the remote-shell path exactly when              *)
(* K8S_SSH_HOST is set, whatever the user, key and password settings; the  *)
(* remote process is a remote-shell client whose last argument is the      *)
(* client command behind sudo, the local process is KUBECTL_PATH, or       *)
(* kubectl when that is not set.                                           *)
C12_RemoteIffHost ==
  \A p \in Processes :
    IF env.K8S_SSH_HOST # ""
    THEN /\ p.command \in RemoteShellClients
         /\ StartsWith(p.spawnArgs[Len(p.spawnArgs)].s, "sudo kubectl ")
    ELSE /\ p.command = (IF env.KUBECTL_PATH # "" THEN env.KUBECTL_PATH ELSE "kubectl")
         /\ p.command \notin RemoteShellClients

\* a host with no user, key or password still gives ssh
C12_Witness ==
  \E c \in CallIds :
    /\ calls[c].spawned > 0
    /\ env.K8S_SSH_HOST = "10.0.0.5"
    /\ env.K8S_SSH_USER = "" /\ env.K8S_SSH_KEY = "" /\ env.K8S_SSH_PASSWORD = ""
    /\ calls[c].proc.command = "ssh"
    /\ calls[c].name = "k8s_get_cluster_info"
    /\ calls[c].proc.spawnArgs =
         StrSeq(<<"-o", "StrictHostKeyChecking=no", "@10.0.0.5",
                  "sudo kubectl cluster-info">>)

\* x is one of the elements of a list of arguments
Among(list, x) == \E i \in DOMAIN list : list[i] = Str(x)

(* C13: in remote mode the authentication is chosen by priority: with a    *)
(* key, ssh -i <key> and the password nowhere in the arguments; else with  *)
(* a password, plink on Windows and sshpass elsewhere, carrying the        *)
(* password; else plain ssh.  The last two arguments are always            *)
(* <user>@<host> and the assembled client command.                         *)
C13_AuthenticationPriority ==
  \A p \in Processes :
    env.K8S_SSH_HOST # ""
      => LET n == Len(p.spawnArgs) IN
         /\ n >= 2
         /\ p.spawnArgs[n - 1] = Str(env.K8S_SSH_USER \o "@" \o env.K8S_SSH_HOST)
         /\ StartsWith(p.spawnArgs[n].s, "sudo kubectl ")
         /\ IF env.K8S_SSH_KEY # ""
            THEN /\ p.command = "ssh"
                 /\ SubSeq(p.spawnArgs, 1, 2) = StrSeq(<<"-i", env.K8S_SSH_KEY>>)
                 /\ env.K8S_SSH_PASSWORD # ""
                      => \A i \in 1..n : ~Contains(p.spawnArgs[i].s, env.K8S_SSH_PASSWORD)
            ELSE IF env.K8S_SSH_PASSWORD # ""
            THEN /\ p.command = (IF env.platform = "win32" THEN "plink" ELSE "sshpass")
                 /\ Among(p.spawnArgs, env.K8S_SSH_PASSWORD)
                 /\ ~Among(p.spawnArgs, "-i")
            ELSE /\ p.command = "ssh"
                 /\ ~Among(p.spawnArgs, "-i")

\* a key and a password are both set: ssh with the key, no password
C13_Witness ==
  \E c \in CallIds :
    /\ calls[c].spawned > 0
    /\ env.K8S_SSH_HOST # "" /\ env.K8S_SSH_KEY # "" /\ env.K8S_SSH_PASSWORD = "s3cret"
    /\ env.K8S_SSH_USER = "op"
    /\ calls[c].name = "k8s_get_cluster_info"
    /\ calls[c].proc.command = "ssh"
    /\ calls[c].proc.spawnArgs =
         StrSeq(<<"-i", "/home/op/.ssh/id_ed25519", "-o", "StrictHostKeyChecking=no",
                  "-o", "UserKnownHostsFile=/dev/null", "-o", "BatchMode=yes",
                  "op@10.0.0.5", "sudo kubectl cluster-info">>)

\* the flags the local mode puts before the arguments
IsConfigFlag(a) == StartsWith(a.s, "--kubeconfig=")
IsContextFlag(a) == StartsWith(a.s, "--context=")

(* C14: in local mode the spawned arguments are the operation's arguments, *)
(* unmodified and in order, preceded by --kubeconfig=<path> exactly when   *)
(* KUBECONFIG is set and by --context=<name> exactly when K8S_CONTEXT is   *)
(* set; in remote mode neither flag is added.                              *)
C14_LocalFlags ==
  \A p \in Processes :
    IF env.K8S_SSH_HOST = ""
    THEN LET n == Len(p.spawnArgs) - Len(p.args)
             flags == SubSeq(p.spawnArgs, 1, n)
         IN  /\ n = (IF env.KUBECONFIG # "" THEN 1 ELSE 0)
                    + (IF env.K8S_CONTEXT # "" THEN 1 ELSE 0)
             /\ SubSeq(p.spawnArgs, n + 1, Len(p.spawnArgs)) = p.args
             /\ env.KUBECONFIG # ""
                  <=> Among(flags, "--kubeconfig=" \o env.KUBECONFIG)
             /\ env.K8S_CONTEXT # ""
                  <=> Among(flags, "--context=" \o env.K8S_CONTEXT)
    ELSE \A i \in DOMAIN p.spawnArgs :
           /\ ~Contains(p.spawnArgs[i].s, "--kubeconfig=")
           /\ ~Contains(p.spawnArgs[i].s, "--context=")

\* both flags before the arguments of a list call
C14_Witness ==
  \E c \in CallIds :
    /\ calls[c].spawned > 0
    /\ env.K8S_SSH_HOST = ""
    /\ env.KUBECONFIG # "" /\ env.K8S_CONTEXT # ""
    /\ calls[c].kargs = StrSeq(<<"get", "pods", "-o", "wide", "-n", "default",
                                 "-l", "app in (web, api)">>)
    /\ calls[c].proc.spawnArgs =
         StrSeq(<<"--context=staging", "--kubeconfig=/home/op/.kube/config">>)
         \o calls[c].kargs

\* an argument as the claim has it in the command string
QuotedIfNeeded(a) ==
  IF Includes(a, " ") \/ Includes(a, "'") \/ Includes(a, "\"")
  THEN "\"" \o ReplaceAll(a, "\"", "\\\"") \o "\""
  ELSE a

(* C15: in remote mode the command string is sudo kubectl and the          *)
(* arguments in order, one space between them, each argument that holds a  *)
(* space or a quote character (single or double) wrapped in double quotes  *)
(* with its double quotes escaped, every other argument unchanged.  The    *)
(* code breaks it: an argument with a double quote and neither a space nor *)
(* a single quote is passed unquoted.                                      *)
C15_RemoteQuoting ==
  \A p \in Processes :
    env.K8S_SSH_HOST # ""
      => p.spawnArgs[Len(p.spawnArgs)].s =
           "sudo kubectl " \o Join([i \in DOMAIN p.args |-> QuotedIfNeeded(p.args[i].s)], " ")

\* no name twice in a list of names
Distinct(names) ==
  Cardinality({names[i] : i \in DOMAIN names}) = Len(names)

\* the names of a list, as a set
NamesOf(list) == {list[i] : i \in DOMAIN list}

C17_OneBranchPerTool ==
  /\ Distinct(cases)
  /\ listed # <<>>
       => /\ \A name \in NamesOf(listed) : KnownTool(name)
          /\ NamesOf(cases) \subseteq NamesOf(listed)
  /\ \A c \in CallIds :
       (Answered(c) /\ calls[c].name \in ToolNames)
         => ~Contains(calls[c].response.text, "Unknown tool")
  /\ \A c \in CallIds : calls[c].spawned > 0 => calls[c].name \in ToolNames

\* the catalog was listed and a call of its last but seventh tool ran
C17_Witness ==
  /\ listed = tools
  /\ \E c \in CallIds :
       /\ Answered(c)
       /\ calls[c].name = "k8s_get_all"
       /\ calls[c].spawned = 1
       /\ ~calls[c].response.isError

(* C18: k8s_exec_pod never tests the exit status: after exit status 0, a   *)
(* nonzero one or a spawn error alike, its response is unflagged and its   *)
(* text is the captured standard output followed by the captured standard  *)
(* error.                                                                  *)
C18_ExecIgnoresExit ==
  \A c \in CallIds :
    (Answered(c) /\ calls[c].name = "k8s_exec_pod" /\ calls[c].spawned > 0)
      => /\ ~calls[c].response.isError
         /\ ~calls[c].response.failed
         /\ calls[c].response.text =
              calls[c].proc.result.stdout \o calls[c].proc.result.stderr
         /\ calls[c].proc.settledBy = "close"
              => calls[c].response.text =
                   calls[c].proc.sentOut \o calls[c].proc.sentErr
         /\ calls[c].proc.settledBy = "error"
              => calls[c].response.text \in SpawnErrors

\* a command that printed on both streams and ended with status 1
C18_Witness ==
  \E c \in CallIds :
    /\ Answered(c)
    /\ calls[c].name = "k8s_exec_pod"
    /\ ExitedNonzero(c)
    /\ calls[c].response =
         [failed |-> FALSE, isError |-> FALSE, text |-> TableText \o ErrorText]

(* C19: the response of a call that spawned a process is produced only     *)
(* once the process has ended (close event) or failed (error event):       *)
(* while neither has happened the call has no response, however long that  *)
(* lasts, since nothing else ends the wait (no timeout, no cancellation);  *)
(* and once either has happened the call is answered.                      *)
C19_AnsweredAtTheEnd ==
  \A c \in CallIds :
    calls[c].spawned > 0
      => /\ Answered(c) <=> (calls[c].proc.closed \/ calls[c].proc.errored)
         /\ Answered(c) => calls[c].proc.settledBy \in {"close", "error"}
         /\ ~Answered(c) => /\ calls[c].phase = "awaiting"
                            /\ calls[c].response = NoResponse
                            /\ ~calls[c].proc.settled

\* a process that has written all its output on both streams and has not
\* ended: its call is still without a response
C19_Witness ==
  \E c \in CallIds :
    /\ calls[c].phase = "awaiting"
    /\ calls[c].proc.stdout = TableText
    /\ calls[c].proc.stderr = ErrorText
    /\ calls[c].proc.toOut = "" /\ calls[c].proc.toErr = ""
    /\ ~calls[c].proc.closed /\ ~calls[c].proc.errored
    /\ calls[c].response = NoResponse

\* the list operations that return the client's table as it is
RawListTools ==
  {"k8s_list_nodes", "k8s_list_namespaces", "k8s_list_pods",
   "k8s_list_deployments", "k8s_list_services", "k8s_list_configmaps",
   "k8s_list_secrets", "k8s_list_statefulsets", "k8s_list_daemonsets",
   "k8s_list_ingresses"}

(* C20: after exit status 0 the response text of a list operation is       *)
(* exactly the captured standard output: the chunks the process wrote, in  *)
(* the order of their arrival, nothing added, removed or re-ordered, and   *)
(* nothing of the standard error.                                          *)
C20_ListReturnsRawOutput ==
  \A c \in CallIds :
    (Answered(c) /\ calls[c].name \in RawListTools /\ ExitedZero(c))
      => /\ ~calls[c].response.isError
         /\ calls[c].response.text = calls[c].proc.sentOut
         /\ calls[c].proc.sentErr # ""
              => ~Contains(calls[c].response.text, calls[c].proc.sentErr)

\* a table that arrived in two chunks, with a warning on standard error
C20_Witness ==
  \E c \in CallIds :
    /\ Answered(c)
    /\ calls[c].name = "k8s_list_deployments"
    /\ ExitedZero(c)
    /\ calls[c].proc.chunks = 2
    /\ calls[c].proc.sentErr = ErrorText
    /\ calls[c].response = [failed |-> FALSE, isError |-> FALSE, text |-> TableText]

\* the response to a result that an error event produced: the message,
\* flagged unless the tool is k8s_exec_pod
AfterError(c, response) ==
  \E m \in SpawnErrors :
    response = IF calls[c].name = "k8s_exec_pod"
               THEN [failed |-> FALSE, isError |-> FALSE, text |-> m]
               ELSE [failed |-> FALSE, isError |-> TRUE, text |-> "Error: " \o m]

(* C21: of an error event and a close event delivered for the same        *)
(* process, in either order, the first one produces the result and the     *)
(* response of the call (an error event: no output, its message and code   *)
(* 1; a close event: the output captured until then), and once the call is *)
(* answered neither the later event nor a later chunk changes the result   *)
(* or the response.                                                        *)
C21_FirstEventDecides ==
  [][\A c \in CallIds :
       LET p == calls[c].proc
           q == calls'[c].proc
       IN  /\ (calls[c].phase = "awaiting" /\ ~p.errored /\ q.errored)
                => /\ calls'[c].phase = "answered"
                   /\ q.result.stdout = "" /\ q.result.code = 1
                   /\ q.result.stderr \in SpawnErrors
                   /\ AfterError(c, calls'[c].response)
           /\ (calls[c].phase = "awaiting" /\ ~p.closed /\ q.closed)
                => /\ calls'[c].phase = "answered"
                   /\ q.result.stdout = p.sentOut
                   /\ q.result.stderr = p.sentErr
                   /\ ~AfterError(c, calls'[c].response)
           /\ (Answered(c) /\ calls[c].spawned > 0 /\ calls'[c].phase # "idle")
                => /\ calls'[c].phase = "answered"
                   /\ calls'[c].response = calls[c].response
                   /\ calls'[c].outcome = calls[c].outcome
                   /\ q.result = p.result]_vars

\* a call answered after the close event of its process, which then had
\* an error event too: the response is still the table the process wrote
C21_Witness ==
  \E c \in CallIds :
    /\ Answered(c)
    /\ calls[c].name = "k8s_list_pods"
    /\ calls[c].proc.closed /\ calls[c].proc.errored
    /\ calls[c].proc.exit = Num(0)
    /\ calls[c].proc.result = [stdout |-> TableText, stderr |-> "", code |-> 0]
    /\ calls[c].response = [failed |-> FALSE, isError |-> FALSE, text |-> TableText]


(* C22: for every k8s_apply_manifest call, whatever the manifest text, the *)
(* empty one included, the manifest is written to the standard input of    *)
(* the process and the standard input is then closed, so that a client     *)
(* reading to the end of its input meets it.  The code breaks it: an empty *)
(* manifest is falsy, so nothing is written and the input stays open.      *)
C22_ManifestFedAndClosed ==
  \A c \in CallIds :
    (/\ calls[c].spawned > 0
     /\ calls[c].name = "k8s_apply_manifest"
     /\ calls[c].args.manifest.k = "string")
      => /\ calls[c].proc.stdinText = calls[c].args.manifest.s
         /\ calls[c].proc.stdinEnded

\* the close event of the process of call c was the first to settle the
\* promise, and carried no exit status: a signal ended the process
ClosedBySignal(c) ==
  /\ calls[c].spawned > 0
  /\ calls[c].proc.settledBy = "close"
  /\ calls[c].proc.exit = Null

\* the exit code the claim has the executor report for an exit status
ReportedCode(exit) == IF exit.k = "number" THEN exit.n ELSE 0

(* C23 as stated: the reported exit code is the exit status of the        *)
(* process, a process ended by a signal is reported with code 0, and the   *)
(* call that issued it returns an unflagged response.                      *)
C23_SignalIsUnflagged ==
  \A c \in CallIds :
    (Answered(c) /\ calls[c].spawned > 0 /\ calls[c].proc.settledBy = "close")
      => /\ calls[c].proc.result.code = ReportedCode(calls[c].proc.exit)
         /\ ClosedBySignal(c) => ~calls[c].response.isError

(* C23: the reported exit code is the exit status of the process, and a    *)
(* process ended by a signal is reported with code 0, so its call takes    *)
(* the path of a success: the response is never the flagged standard-error *)
(* text of a failure, and it is unflagged for every tool but the read      *)
(* tools that parse the output as JSON, which flag an output they cannot   *)
(* read (as they do after exit status 0).                                  *)
C23_SignalIsExitZero ==
  \A c \in CallIds :
    (Answered(c) /\ calls[c].spawned > 0 /\ calls[c].proc.settledBy = "close")
      => /\ calls[c].proc.result.code = ReportedCode(calls[c].proc.exit)
         /\ ClosedBySignal(c)
              => /\ calls[c].response.isError => calls[c].name \in JsonTools
                 /\ calls[c].proc.sentErr # ""
                      => calls[c].response.text # "Error: " \o calls[c].proc.sentErr

\* a deletion whose process wrote an error message and was ended by a
\* signal: reported as done
C23_Witness ==
  \E c \in CallIds :
    /\ Answered(c)
    /\ ClosedBySignal(c)
    /\ calls[c].name = "k8s_delete_pod"
    /\ calls[c].proc.result = [stdout |-> "", stderr |-> ErrorText, code |-> 0]
    /\ calls[c].response =
         [failed |-> FALSE, isError |-> FALSE,
          text |-> "Pod 'web' deleted from namespace 'default'"]

\* the values the secrets of the cluster store, and what they decode to
StoredValues ==
  {"YWRtaW4=", "cEBzcyB3MHJk", "/w==", "cm9vdA==", "aHVudGVyMg==", "gA=="}
DecodedValues == {"admin", "p@ss w0rd", "root", "hunter2"}

RECURSIVE Lines(_)
\* the strings of a list, one to a line of an indented JSON array
Lines(items) ==
  IF items = <<>> THEN ""
  ELSE "\n    \"" \o Head(items) \o "\""
       \o (IF Len(items) > 1 THEN "," ELSE "") \o Lines(Tail(items))

\* the text that names a secret, its namespace, its type and its keys and
\* nothing else
SecretSummary(name, namespace, type, keys) ==
  "{\n  \"name\": \"" \o name \o "\",\n  \"namespace\": \"" \o namespace
  \o "\",\n  \"type\": \"" \o type \o "\",\n  \"keys\": ["
  \o (IF keys = <<>> THEN "]" ELSE Lines(keys) \o "\n  ]") \o "\n}"

WithoutDecode(c) ==
  /\ calls[c].name = "k8s_get_secret"
  /\ calls[c].hasArgs
  /\ calls[c].args.decode \in {Undefined, Bool(FALSE)}

C25_ApplyWithoutDefault ==
  \A c \in CallIds :
    (calls[c].phase # "idle" /\ calls[c].name = "k8s_apply_manifest"
     /\ calls[c].hasArgs)
      => LET given == calls[c].args.namespace IN
         /\ calls[c].kargs =
              StrSeq(<<"apply", "-f", "-">>)
              \o (IF given.k = "string" /\ given.s # ""
                  THEN StrSeq(<<"-n", given.s>>) ELSE <<>>)
              \o (IF calls[c].args.dry_run = Bool(TRUE)
                  THEN StrSeq(<<"--dry-run=client">>) ELSE <<>>)
         /\ given = Undefined
              => /\ Count(calls[c].kargs, "-n") = 0
                 /\ Count(calls[c].kargs, ConfiguredDefault) = 0

\* a manifest applied with no namespace argument where the environment
\* sets a default namespace: no -n, and the dry run asked for
C25_Witness ==
  \E c \in CallIds :
    /\ calls[c].spawned > 0
    /\ calls[c].name = "k8s_apply_manifest"
    /\ calls[c].args.namespace = Undefined
    /\ calls[c].args.dry_run = Bool(TRUE)
    /\ env.K8S_DEFAULT_NAMESPACE = "team-a"
    /\ calls[c].ns = Str("team-a")
    /\ calls[c].kargs = StrSeq(<<"apply", "-f", "-", "--dry-run=client">>)

\* the flag and value an argument of k8s_get_pod_logs adds when supplied
Supplied(flag, v) ==
  IF v = Undefined THEN <<>>
  ELSE <<Str(flag), Str(IF v.k = "number" THEN NatToString(v.n) ELSE v.s)>>

(* C26: the argument list of k8s_get_pod_logs is logs <name> -n            *)
(* <namespace>, then in this order -c <container>, --previous, --tail <n>  *)
(* and --since <duration>, each exactly when its argument is supplied, for *)
(* tail whatever the number, 0 included; after exit status 0 the response  *)
(* is the captured standard output, or "No logs available" when that is    *)
(* empty.  The code breaks it: a tail of 0 is falsy and adds no --tail.    *)
C26_PodLogs ==
  \A c \in CallIds :
    (calls[c].phase # "idle" /\ calls[c].name = "k8s_get_pod_logs"
     /\ calls[c].hasArgs)
      => LET a == calls[c].args IN
         /\ calls[c].kargs =
              StrSeq(<<"logs", a.name.s, "-n", ExpectedNamespace(c)>>)
              \o Supplied("-c", a.container)
              \o (IF a.previous = Bool(TRUE) THEN StrSeq(<<"--previous">>) ELSE <<>>)
              \o Supplied("--tail", a.tail)
              \o Supplied("--since", a.since)
         /\ (Answered(c) /\ ExitedZero(c))
              => calls[c].response =
                   [failed |-> FALSE, isError |-> FALSE,
                    text |-> IF calls[c].proc.sentOut # ""
                             THEN calls[c].proc.sentOut ELSE "No logs available"]

\* the test's process has ended or has failed to start
ProbeOver(p) == p.closed \/ p.errored

\* the command line of the connectivity test asks for the client version
AsksVersion(p) ==
  LET n == Len(p.spawnArgs) IN
  IF RemoteMode
  THEN n > 0 /\ p.spawnArgs[n] = Str("sudo kubectl version --short")
  ELSE n > 1 /\ p.spawnArgs[n - 1] = Str("version")
             /\ p.spawnArgs[n] = Str("--short")

(* C27: at startup the server runs one connectivity test (the client       *)
(* version query) and serves only once that process is over: no request is *)
(* handled before, a test that fails (nonzero exit status or spawn error)  *)
(* does not keep the server from serving, and while the test has not ended *)
(* the server does not serve, however long that lasts.                     *)
C27_ServesAfterTheProbe ==
  /\ [](/\ serverState \in {"init", "probing", "serving"}
        /\ serverState = "init" => probe = NoProc
        /\ serverState # "init" => AsksVersion(probe)
        /\ serverState = "serving" <=> ProbeOver(probe)
        /\ serverState # "serving"
             => /\ listed = <<>>
                /\ \A c \in CallIds : calls[c] = IdleCall)
  /\ [][/\ serverState' = "init" => serverState = "init"
        /\ serverState # "init"
             => /\ probe'.command = probe.command
                /\ probe'.spawnArgs = probe.spawnArgs
        /\ (serverState = "probing" /\ ProbeOver(probe'))
             => serverState' = "serving"
        /\ serverState = "serving" => probe' = probe]_vars

\* a request answered by a server whose connectivity test had ended with
\* status 1 and an error message
C27_Witness ==
  /\ serverState = "serving"
  /\ probe.settledBy = "close"
  /\ probe.exit = Num(1)
  /\ probe.result = [stdout |-> "", stderr |-> ErrorText, code |-> 1]
  /\ \E c \in CallIds : Answered(c) /\ ~calls[c].response.isError

====
